---- MODULE Spec2Model ----
(***************************************************************************)
(* Row verification engine of the Entra onboarding task pane (verifyCore,  *)
(* verifyUsers, verifyUpdateUsers) and the create / update submission      *)
(* flows that call it.                                                      *)
(*                                                                         *)
(* Strings are TLA+ strings; a character is a string of length 1.  A cell  *)
(* of a row is a record [kind, str, num]: a string cell, a number cell or  *)
(* an absent (null / undefined) cell.  Column indices are 0-based as in    *)
(* the source; a row is a sequence, so column c is row[c + 1].             *)
(***************************************************************************)
EXTENDS Integers, Sequences, FiniteSets, TLC

\* ------------------------------------------------------------------------
\* JavaScript string primitives used by the engine
\* ------------------------------------------------------------------------

CharAt(s, i) == SubSeq(s, i, i)

IsWhitespace(c) == c \in {" ", "\t", "\n", "\r"}

RECURSIVE trimStart(_)
trimStart(s) ==
  IF Len(s) > 0 /\ IsWhitespace(CharAt(s, 1))
    THEN trimStart(SubSeq(s, 2, Len(s)))
    ELSE s

RECURSIVE trimEnd(_)
trimEnd(s) ==
  IF Len(s) > 0 /\ IsWhitespace(CharAt(s, Len(s)))
    THEN trimEnd(SubSeq(s, 1, Len(s) - 1))
    ELSE s

trim(s) == trimEnd(trimStart(s))

LowerMap ==
  [A |-> "a", B |-> "b", C |-> "c", D |-> "d", E |-> "e", F |-> "f",
   G |-> "g", H |-> "h", I |-> "i", J |-> "j", K |-> "k", L |-> "l",
   M |-> "m", N |-> "n", O |-> "o", P |-> "p", Q |-> "q", R |-> "r",
   S |-> "s", T |-> "t", U |-> "u", V |-> "v", W |-> "w", X |-> "x",
   Y |-> "y", Z |-> "z"]

LowerChar(c) == IF c \in DOMAIN LowerMap THEN LowerMap[c] ELSE c

\* s.toLowerCase(): every character mapped by LowerChar (the string is
\* halved at each step, which keeps the evaluation shallow)
RECURSIVE toLowerCase(_)
toLowerCase(s) ==
  IF Len(s) = 0 THEN ""
  ELSE IF Len(s) = 1 THEN LowerChar(s)
  ELSE toLowerCase(SubSeq(s, 1, Len(s) \div 2))
       \o toLowerCase(SubSeq(s, (Len(s) \div 2) + 1, Len(s)))

\* s.split(sep) for a one-character separator: the pieces between
\* consecutive separators, always at least one part.
split(s, sep) ==
  LET at == SelectSeq([k \in 1..Len(s) |-> k], LAMBDA k : CharAt(s, k) = sep)
      n == Len(at)
  IN  << >> \o [m \in 1..(n + 1) |->
                  SubSeq(s, IF m = 1 THEN 1 ELSE at[m - 1] + 1,
                            IF m = n + 1 THEN Len(s) ELSE at[m] - 1)]

\* parts.join(sep)
RECURSIVE join(_, _)
join(parts, sep) ==
  IF Len(parts) = 0 THEN ""
  ELSE IF Len(parts) = 1 THEN parts[1]
  ELSE parts[1] \o sep \o join(Tail(parts), sep)

DigitChars == <<"0", "1", "2", "3", "4", "5", "6", "7", "8", "9">>

IsDigit(c) == c \in {"0", "1", "2", "3", "4", "5", "6", "7", "8", "9"}

IsHexDigit(c) ==
  IsDigit(c) \/ c \in {"a", "b", "c", "d", "e", "f", "A", "B", "C", "D", "E", "F"}

\* String(n) for an integer n
RECURSIVE natToString(_)
natToString(n) ==
  IF n < 10 THEN DigitChars[n + 1]
  ELSE natToString(n \div 10) \o DigitChars[(n % 10) + 1]

numberToString(n) == IF n < 0 THEN "-" \o natToString(0 - n) ELSE natToString(n)

\* ------------------------------------------------------------------------
\* Cells
\* ------------------------------------------------------------------------

StrCell(s) == [kind |-> "string", str |-> s, num |-> 0]
NumCell(n) == [kind |-> "number", str |-> "", num |-> n]
NoCell == [kind |-> "undefined", str |-> "", num |-> 0]

\* String(raw), without the `?? ''` default: an absent cell reads "undefined"
StringOfNoDefault(raw) ==
  CASE raw.kind = "string" -> raw.str
    [] raw.kind = "number" -> numberToString(raw.num)
    [] OTHER -> "undefined"

\* String(raw ?? '')
StringOf(raw) ==
  CASE raw.kind = "string" -> raw.str
    [] raw.kind = "number" -> numberToString(raw.num)
    [] OTHER -> ""

\* row[index]: undefined beyond the end of the row
rowAt(row, index) ==
  IF index >= 0 /\ index < Len(row) THEN row[index + 1] ELSE NoCell

\* ------------------------------------------------------------------------
\* verifyCore: constants and shared helpers
\* ------------------------------------------------------------------------

UPN_DOMAIN == "majorel.com"
MAIL_DOMAINS == <<"majorel.com", "mj.teleperformance.com">>
MAX_DATA_ROWS == 100

noInputTableResult ==
  [success |-> FALSE, totalRows |-> 0, okCount |-> 0, problemCount |-> 0,
   problemRowIndices |-> <<>>, noInputTable |-> TRUE]

cellValue(row, index) == trim(StringOf(rowAt(row, index)))

\* isValidEmailFormat accepting two or more parts
isValidEmailFormatAnyParts(value) ==
  IF value = "" THEN FALSE
  ELSE LET parts == split(value, "@")
       IN  Len(parts) >= 2 /\ Len(parts[1]) > 0 /\ Len(parts[Len(parts)]) > 0

isValidEmailFormat(value) ==
  IF value = "" THEN FALSE
  ELSE LET parts == split(value, "@")
       IN  Len(parts) = 2 /\ Len(parts[1]) > 0 /\ Len(parts[2]) > 0

\* parseEmail without the toLowerCase() of the domain
parseEmailKeepCase(value) ==
  LET parts == split(value, "@")
  IN  IF Len(parts) # 2 \/ trim(parts[1]) = "" \/ trim(parts[2]) = ""
        THEN [ok |-> FALSE, local |-> "", domain |-> ""]
        ELSE [ok |-> TRUE, local |-> trim(parts[1]), domain |-> trim(parts[2])]

\* null is modelled as [ok |-> FALSE]
parseEmail(value) ==
  LET parts == split(value, "@")
  IN  IF Len(parts) # 2 \/ trim(parts[1]) = "" \/ trim(parts[2]) = ""
        THEN [ok |-> FALSE, local |-> "", domain |-> ""]
        ELSE [ok |-> TRUE, local |-> trim(parts[1]),
              domain |-> toLowerCase(trim(parts[2]))]

\* BmsIdRegexTest accepting leading zeros: /^\d+$/
BmsIdRegexTestDigitsOnly(value) ==
  /\ Len(value) >= 1
  /\ \A i \in 1..Len(value) : IsDigit(CharAt(value, i))

\* /^(0|[1-9]\d*)$/.test(value)
BmsIdRegexTest(value) ==
  \/ value = "0"
  \/ /\ Len(value) >= 1
     /\ IsDigit(CharAt(value, 1))
     /\ CharAt(value, 1) # "0"
     /\ \A i \in 2..Len(value) : IsDigit(CharAt(value, i))

isValidBmsId(value) == IF value = "" THEN TRUE ELSE BmsIdRegexTest(value)

\* UUID_REGEX without the i flag
UUID_REGEX_CaseSensitive(value) ==
  /\ Len(value) = 36
  /\ \A i \in 1..36 :
       IF i \in {9, 14, 19, 24} THEN CharAt(value, i) = "-"
       ELSE IsDigit(CharAt(value, i))
            \/ CharAt(value, i) \in {"a", "b", "c", "d", "e", "f"}

\* /^[0-9a-f]{8}-[0-9a-f]{4}-[0-9a-f]{4}-[0-9a-f]{4}-[0-9a-f]{12}$/i.test(value)
UUID_REGEX(value) ==
  /\ Len(value) = 36
  /\ \A i \in 1..36 :
       IF i \in {9, 14, 19, 24} THEN CharAt(value, i) = "-"
       ELSE IsHexDigit(CharAt(value, i))

\* ------------------------------------------------------------------------
\* The two configurations bound by createVerifier
\* ------------------------------------------------------------------------

Col(i, n) == [index |-> i, name |-> n]

createVerifierInstance ==
  [columns |-> [userPrincipalName |-> 0, mail |-> 1, bmsId |-> 2, localHrId |-> 3],
   requiredColumns |->
     << Col(0, "User Principal Name"), Col(1, "Mail"), Col(5, "First Name"),
        Col(6, "Last Name"), Col(7, "Display Name"), Col(8, "Country"),
        Col(9, "City") >>,
   uniqueColumns |->
     << Col(0, "User Principal Name"), Col(1, "Mail"), Col(2, "BMS ID"),
        Col(3, "Local HR ID") >>,
   extraValidators |-> << >>]

\* updateVerifierInstance with the shared columns at their create positions
updateVerifierInstanceUnshifted ==
  [columns |-> [userPrincipalName |-> 0, mail |-> 1, bmsId |-> 2, localHrId |-> 3],
   requiredColumns |->
     << Col(0, "Object ID"), Col(0, "User Principal Name"), Col(1, "Mail"),
        Col(5, "First Name"), Col(6, "Last Name"), Col(7, "Display Name"),
        Col(8, "Country"), Col(9, "City") >>,
   uniqueColumns |->
     << Col(0, "Object ID"), Col(0, "User Principal Name"), Col(1, "Mail"),
        Col(2, "BMS ID"), Col(3, "Local HR ID") >>,
   extraValidators |-> << "objectIdUuid" >>]

updateVerifierInstance ==
  [columns |-> [userPrincipalName |-> 1, mail |-> 2, bmsId |-> 3, localHrId |-> 4],
   requiredColumns |->
     << Col(0, "Object ID"), Col(1, "User Principal Name"), Col(2, "Mail"),
        Col(6, "First Name"), Col(7, "Last Name"), Col(8, "Display Name"),
        Col(9, "Country"), Col(10, "City") >>,
   uniqueColumns |->
     << Col(0, "Object ID"), Col(1, "User Principal Name"), Col(2, "Mail"),
        Col(3, "BMS ID"), Col(4, "Local HR ID") >>,
   extraValidators |-> << "objectIdUuid" >>]

\* the extra validator of the update configuration (Object ID at column 0)
objectIdValidator(row) ==
  LET objectId == cellValue(row, 0)
  IN  IF objectId # "" /\ ~UUID_REGEX(objectId)
        THEN << "Object ID must be a valid UUID" >>
        ELSE << >>

applyValidator(validator, row) ==
  CASE validator = "objectIdUuid" -> objectIdValidator(row)
    [] OTHER -> << >>

\* ------------------------------------------------------------------------
\* Row evaluator
\* ------------------------------------------------------------------------

\* requiredMessages testing the raw cell text, without trim()
RECURSIVE requiredMessagesUntrimmed(_, _)
requiredMessagesUntrimmed(row, requiredColumns) ==
  IF Len(requiredColumns) = 0 THEN << >>
  ELSE (IF StringOf(rowAt(row, Head(requiredColumns).index)) = ""
          THEN << "Required field '" \o Head(requiredColumns).name \o "' is empty" >>
          ELSE << >>)
       \o requiredMessagesUntrimmed(row, Tail(requiredColumns))

RECURSIVE requiredMessages(_, _)
requiredMessages(row, requiredColumns) ==
  IF Len(requiredColumns) = 0 THEN << >>
  ELSE (IF cellValue(row, Head(requiredColumns).index) = ""
          THEN << "Required field '" \o Head(requiredColumns).name \o "' is empty" >>
          ELSE << >>)
       \o requiredMessages(row, Tail(requiredColumns))

RECURSIVE extraMessages(_, _)
extraMessages(row, extraValidators) ==
  IF Len(extraValidators) = 0 THEN << >>
  ELSE applyValidator(Head(extraValidators), row)
       \o extraMessages(row, Tail(extraValidators))

\* idMessages with the either-or test looking at the BMS ID alone
idMessagesBmsIdOnly(row, columns) ==
  LET bmsId == cellValue(row, columns.bmsId)
  IN  (IF bmsId = ""
         THEN << "BMS ID and Local HR ID are both empty" >> ELSE << >>)
      \o
      (IF bmsId # "" /\ ~isValidBmsId(bmsId)
         THEN << "BMS ID must be a number (digits only, no leading zero)" >>
         ELSE << >>)

idMessages(row, columns) ==
  LET bmsId == cellValue(row, columns.bmsId)
      localHrId == cellValue(row, columns.localHrId)
  IN  (IF bmsId = "" /\ localHrId = ""
         THEN << "BMS ID and Local HR ID are both empty" >> ELSE << >>)
      \o
      (IF bmsId # "" /\ ~isValidBmsId(bmsId)
         THEN << "BMS ID must be a number (digits only, no leading zero)" >>
         ELSE << >>)

upnMessages(upn) ==
  IF upn = "" THEN << >>
  ELSE IF ~isValidEmailFormat(upn)
    THEN << "User Principal Name: invalid format" >>
    ELSE LET upnParsed == parseEmail(upn)
         IN  IF upnParsed.ok /\ upnParsed.domain # toLowerCase(UPN_DOMAIN)
               THEN << "User Principal Name: domain must be " \o UPN_DOMAIN >>
               ELSE << >>

\* mailMessages comparing with the first allowed domain only
mailMessagesFirstDomainOnly(mail) ==
  IF mail = "" THEN << >>
  ELSE IF ~isValidEmailFormat(mail)
    THEN << "Mail: invalid format" >>
    ELSE LET mailParsed == parseEmail(mail)
         IN  IF mailParsed.ok /\ toLowerCase(MAIL_DOMAINS[1]) # mailParsed.domain
               THEN << "Mail: domain must be one of " \o join(MAIL_DOMAINS, ", ") >>
               ELSE << >>

mailMessages(mail) ==
  IF mail = "" THEN << >>
  ELSE IF ~isValidEmailFormat(mail)
    THEN << "Mail: invalid format" >>
    ELSE LET mailParsed == parseEmail(mail)
             allowed == [k \in DOMAIN MAIL_DOMAINS |-> toLowerCase(MAIL_DOMAINS[k])]
         IN  IF mailParsed.ok
                /\ ~(\E k \in DOMAIN allowed : allowed[k] = mailParsed.domain)
               THEN << "Mail: domain must be one of " \o join(MAIL_DOMAINS, ", ") >>
               ELSE << >>

\* localPartMessages comparing the local parts as written
localPartMessagesCaseSensitive(upn, mail) ==
  IF upn # "" /\ mail # ""
    THEN LET upnParsed == parseEmail(upn)
             mailParsed == parseEmail(mail)
         IN  IF upnParsed.ok /\ mailParsed.ok /\ upnParsed.local # mailParsed.local
               THEN << "User Principal Name and Mail local part do not match" >>
               ELSE << >>
    ELSE << >>

localPartMessages(upn, mail) ==
  IF upn # "" /\ mail # ""
    THEN LET upnParsed == parseEmail(upn)
             mailParsed == parseEmail(mail)
         IN  IF /\ upnParsed.ok
                /\ mailParsed.ok
                /\ toLowerCase(upnParsed.local) # toLowerCase(mailParsed.local)
               THEN << "User Principal Name and Mail local part do not match" >>
               ELSE << >>
    ELSE << >>

\* getRowValidationErrorMessages running the extra validators last
getRowValidationErrorMessagesExtraLast(row, config) ==
  LET upn == cellValue(row, config.columns.userPrincipalName)
      mail == cellValue(row, config.columns.mail)
  IN  requiredMessages(row, config.requiredColumns)
      \o idMessages(row, config.columns)
      \o upnMessages(upn)
      \o mailMessages(mail)
      \o localPartMessages(upn, mail)
      \o extraMessages(row, config.extraValidators)

\* getRowValidationErrorMessages returning at its first message
getRowValidationErrorMessagesFirstOnly(row, config) ==
  LET upn == cellValue(row, config.columns.userPrincipalName)
      mail == cellValue(row, config.columns.mail)
      all == requiredMessages(row, config.requiredColumns)
             \o extraMessages(row, config.extraValidators)
             \o idMessages(row, config.columns)
             \o upnMessages(upn)
             \o mailMessages(mail)
             \o localPartMessages(upn, mail)
  IN  IF Len(all) = 0 THEN << >> ELSE << all[1] >>

getRowValidationErrorMessages(row, config) ==
  LET upn == cellValue(row, config.columns.userPrincipalName)
      mail == cellValue(row, config.columns.mail)
  IN  requiredMessages(row, config.requiredColumns)
      \o extraMessages(row, config.extraValidators)
      \o idMessages(row, config.columns)
      \o upnMessages(upn)
      \o mailMessages(mail)
      \o localPartMessages(upn, mail)

\* ------------------------------------------------------------------------
\* Duplicate detection
\* ------------------------------------------------------------------------

\* 0, 1, ..., n - 1: the values of a loop counter
indexSeq(n) == [k \in 1..n |-> k - 1]

\* the indices i, ascending, with cellValue(rows[i], index).toLowerCase() = key
rowsWithKey(rows, index, key) ==
  SelectSeq(indexSeq(Len(rows)),
            LAMBDA i : toLowerCase(cellValue(rows[i + 1], index)) = key)

\* getRowDuplicateMessages comparing the values as written
RECURSIVE getRowDuplicateMessagesCaseSensitive(_, _, _)
getRowDuplicateMessagesCaseSensitive(rows, rowIndex, uniqueColumns) ==
  IF Len(uniqueColumns) = 0 THEN << >>
  ELSE LET row == IF rowIndex >= 0 /\ rowIndex < Len(rows)
                    THEN rows[rowIndex + 1] ELSE << >>
           value == cellValue(row, Head(uniqueColumns).index)
           indices == SelectSeq(indexSeq(Len(rows)),
                                LAMBDA i : cellValue(rows[i + 1], Head(uniqueColumns).index)
                                             = value)
       IN  (IF value # "" /\ Len(indices) > 1
              THEN << "Duplicate value in '" \o Head(uniqueColumns).name \o "'" >>
              ELSE << >>)
           \o getRowDuplicateMessagesCaseSensitive(rows, rowIndex, Tail(uniqueColumns))

RECURSIVE getRowDuplicateMessages(_, _, _)
getRowDuplicateMessages(rows, rowIndex, uniqueColumns) ==
  IF Len(uniqueColumns) = 0 THEN << >>
  ELSE LET row == IF rowIndex >= 0 /\ rowIndex < Len(rows)
                    THEN rows[rowIndex + 1] ELSE << >>
           value == cellValue(row, Head(uniqueColumns).index)
           indices == rowsWithKey(rows, Head(uniqueColumns).index, toLowerCase(value))
       IN  (IF value # "" /\ Len(indices) > 1
              THEN << "Duplicate value in '" \o Head(uniqueColumns).name \o "'" >>
              ELSE << >>)
           \o getRowDuplicateMessages(rows, rowIndex, Tail(uniqueColumns))

\* setFrom with an array in place of the Set: repeated indices are kept
setFromKeepAll(xs) == xs

\* A JavaScript Set<number> built by add() calls in the order of xs: the
\* elements of xs at their first occurrence.
setFrom(xs) ==
  LET firsts == SelectSeq([k \in 1..Len(xs) |-> k],
                          LAMBDA k : \A j \in 1..(k - 1) : xs[j] # xs[k])
  IN  [m \in 1..Len(firsts) |-> xs[firsts[m]]]

\* valueToRowIndices without the `if (value === '') continue`
valueToRowIndicesKeepEmpty(rows, index) ==
  LET n == Len(rows)
      value == << >> \o [k \in 1..n |-> cellValue(rows[k], index)]
      key == << >> \o [k \in 1..n |-> toLowerCase(value[k])]
      firsts == SelectSeq([k \in 1..n |-> k],
                  LAMBDA k : \A j \in 1..(k - 1) : key[j] # key[k])
  IN  [m \in 1..Len(firsts) |->
         [key |-> key[firsts[m]],
          list |-> SelectSeq(indexSeq(n), LAMBDA i : key[i + 1] = key[firsts[m]])]]

\* The Map<string, number[]> built for one unique column, as its entries in
\* insertion order: one entry per distinct non-empty key, at the position of
\* the key's first row, listing the rows with that key in ascending order.
valueToRowIndices(rows, index) ==
  LET n == Len(rows)
      \* (<< >> \o f tabulates f, so that each cell is converted once)
      value == << >> \o [k \in 1..n |-> cellValue(rows[k], index)]
      key == << >> \o [k \in 1..n |-> toLowerCase(value[k])]
      firsts == SelectSeq([k \in 1..n |-> k],
                  LAMBDA k : value[k] # "" /\ \A j \in 1..(k - 1) :
                                 value[j] = "" \/ key[j] # key[k])
  IN  [m \in 1..Len(firsts) |->
         [key |-> key[firsts[m]],
          list |-> SelectSeq(indexSeq(n),
                     LAMBDA i : value[i + 1] # "" /\ key[i + 1] = key[firsts[m]])]]

\* the concatenation of the lists of the given Map entries
RECURSIVE membersOf(_)
membersOf(entries) ==
  IF Len(entries) = 0 THEN << >>
  ELSE Head(entries).list \o membersOf(Tail(entries))

\* duplicateGroupMembers adding every row of a group but its first
duplicateGroupMembersSkipFirst(map) ==
  LET groups == SelectSeq(map, LAMBDA entry : Len(entry.list) > 1)
  IN  membersOf([k \in DOMAIN groups |->
                   [key |-> groups[k].key, list |-> Tail(groups[k].list)]])

\* the add() calls made for the entries of one Map, in order: the entries
\* passing `indices.length > 1`, each adding all its row indices
duplicateGroupMembers(map) ==
  membersOf(SelectSeq(map, LAMBDA entry : Len(entry.list) > 1))

\* the add() calls made over all unique columns, in order
RECURSIVE duplicateAdds(_, _)
duplicateAdds(rows, uniqueColumns) ==
  IF Len(uniqueColumns) = 0 THEN << >>
  ELSE duplicateGroupMembers(valueToRowIndices(rows, Head(uniqueColumns).index))
       \o duplicateAdds(rows, Tail(uniqueColumns))

findRowsWithDuplicateUniqueValues(rows, uniqueColumns) ==
  setFrom(duplicateAdds(rows, uniqueColumns))

\* ------------------------------------------------------------------------
\* createVerifier(config): verify and getRowProblemDescription
\* ------------------------------------------------------------------------

PROBLEM_MESSAGE_SEPARATOR == "\n"

\* rowsWithValidationErrors stopping at the row ceiling
rowsWithValidationErrorsWithinCeiling(rows, config) ==
  SelectSeq(indexSeq(Len(rows)),
            LAMBDA i : /\ i < MAX_DATA_ROWS
                       /\ Len(getRowValidationErrorMessages(rows[i + 1], config)) > 0)

\* the rows added to problemRowIndicesSet by the first loop of verify
rowsWithValidationErrors(rows, config) ==
  SelectSeq(indexSeq(Len(rows)),
            LAMBDA i : Len(getRowValidationErrorMessages(rows[i + 1], config)) > 0)

\* [...set].sort((a, b) => a - b)
sortAscending(seq) == SortSeq(seq, LAMBDA a, b : a < b)

\* problemRowIndicesOf without the union of the duplicate rows
problemRowIndicesOfValidationOnly(config, rows) ==
  sortAscending(setFrom(rowsWithValidationErrors(rows, config)))

\* problemRowIndicesSet after both loops of verify, sorted
problemRowIndicesOf(config, rows) ==
  LET validationRows == rowsWithValidationErrors(rows, config)
      duplicateRows == findRowsWithDuplicateUniqueValues(rows, config.uniqueColumns)
      problemRowIndicesSet == setFrom(validationRows \o duplicateRows)
  IN  sortAscending(problemRowIndicesSet)

\* resultOf with the ceiling test off by one (>= in place of >)
resultOfOffByOne(totalRows, problemRowIndices) ==
  LET problemCount == Len(problemRowIndices)
      okCount == totalRows - problemCount
      overMaxRows == totalRows >= MAX_DATA_ROWS
      success == problemCount = 0 /\ ~overMaxRows
  IN  [success |-> success, totalRows |-> totalRows, okCount |-> okCount,
       problemCount |-> problemCount, problemRowIndices |-> problemRowIndices,
       noInputTable |-> FALSE]

\* the counts and the success flag of verify; noInputTable is left unset
resultOf(totalRows, problemRowIndices) ==
  LET problemCount == Len(problemRowIndices)
      okCount == totalRows - problemCount
      overMaxRows == totalRows > MAX_DATA_ROWS
      success == problemCount = 0 /\ ~overMaxRows
  IN  [success |-> success, totalRows |-> totalRows, okCount |-> okCount,
       problemCount |-> problemCount, problemRowIndices |-> problemRowIndices,
       noInputTable |-> FALSE]

\* verify answering the empty batch with the no-input-table result
verifyFlaggingEmpty(config, rows) ==
  IF Len(rows) = 0 THEN noInputTableResult
  ELSE resultOf(Len(rows), problemRowIndicesOf(config, rows))

verify(config, rows) ==
  resultOf(Len(rows), problemRowIndicesOf(config, rows))

\* getRowProblemDescription with the duplicate messages first
getRowProblemDescriptionDuplicatesFirst(config, rows, rowIndex) ==
  IF ~(rowIndex >= 0 /\ rowIndex < Len(rows)) THEN ""
  ELSE LET row == rows[rowIndex + 1]
           validation == getRowValidationErrorMessages(row, config)
           duplicates == getRowDuplicateMessages(rows, rowIndex, config.uniqueColumns)
           all == duplicates \o validation
       IN  IF Len(all) = 0 THEN "" ELSE join(all, PROBLEM_MESSAGE_SEPARATOR)

getRowProblemDescription(config, rows, rowIndex) ==
  IF ~(rowIndex >= 0 /\ rowIndex < Len(rows)) THEN ""
  ELSE LET row == rows[rowIndex + 1]
           validation == getRowValidationErrorMessages(row, config)
           duplicates == getRowDuplicateMessages(rows, rowIndex, config.uniqueColumns)
           all == validation \o duplicates
       IN  IF Len(all) = 0 THEN "" ELSE join(all, PROBLEM_MESSAGE_SEPARATOR)

\* ------------------------------------------------------------------------
\* Inputs: rows and batches the handlers are run on
\* ------------------------------------------------------------------------

\* longest small batch
MaxRows == 3
\* how far a large batch may exceed MAX_DATA_ROWS
MaxOver == 1

Config(c) == IF c = "update" THEN updateVerifierInstance ELSE createVerifierInstance

\* A CreateUsers row (19 columns, USERS_TABLE_HEADERS); the nine optional
\* columns after City are empty cells.
CreateRow(upn, mail, bmsId, localHrId, firstName, displayName, city) ==
  << upn, mail, bmsId, localHrId, StrCell("T-1"), firstName, StrCell("Doe"),
     displayName, StrCell("DE"), city >>
  \o [k \in 1..9 |-> StrCell("")]

\* An UpdateUsers row (20 columns): Object ID prepended.
UpdateRow(objectId, createRow) == << objectId >> \o createRow

UuidLower == "3fa85f64-5717-4562-b3fc-2c963f66afa6"
UuidUpper == "3FA85F64-5717-4562-B3FC-2C963F66AFA6"

Ann == StrCell("Ann")
Berlin == StrCell("Berlin")

\* rows a batch is made of
ValidRow ==
  CreateRow(StrCell("a.b@majorel.com"), StrCell("a.b@majorel.com"),
            StrCell("1"), StrCell(""), Ann, Ann, Berlin)

\* valid; shares UPN and Mail with ValidRow in another letter case and BMS ID
\* through the number cell 1
CaseVariantRow ==
  CreateRow(StrCell(" A.B@Majorel.COM "), StrCell("A.B@MAJOREL.com"),
            NumCell(1), StrCell(""), Ann, Ann, Berlin)

\* valid; identified by Local HR ID only
HrOnlyRow ==
  CreateRow(StrCell("x.y@majorel.com"), StrCell("x.y@mj.teleperformance.com"),
            StrCell(""), StrCell("H1"), Ann, Ann, Berlin)

\* Display Name missing, nothing else wrong; shares Local HR ID with HrOnlyRow
NoDisplayNameRow ==
  CreateRow(StrCell("e.f@majorel.com"), StrCell("e.f@majorel.com"),
            NoCell, StrCell(" h1"), Ann, StrCell("  "), Berlin)

\* First Name missing, BMS ID malformed, Mail domain wrong; shares UPN with ValidRow
ManyProblemsRow ==
  CreateRow(StrCell("a.b@majorel.com"), StrCell("a.b@example.org"),
            StrCell("007"), StrCell(""), StrCell(""), Ann, Berlin)

\* UPN domain wrong, local parts differ
MismatchRow ==
  CreateRow(StrCell("k.l@other.org"), StrCell("m.n@majorel.com"),
            StrCell("12"), StrCell(""), Ann, Ann, Berlin)

\* neither address is well-formed, both identifiers are missing
BadFormatRow ==
  CreateRow(StrCell("a.b"), StrCell("a@b@majorel.com"),
            StrCell(""), NoCell, Ann, Ann, Berlin)

EmptyRow(width) == [k \in 1..width |-> StrCell("")]

CreateBatchRows ==
  { ValidRow, CaseVariantRow, HrOnlyRow, NoDisplayNameRow, ManyProblemsRow,
    MismatchRow, BadFormatRow }

UpdateBatchRows ==
  { UpdateRow(StrCell(UuidLower), ValidRow),
    \* shares only the Object ID, in the other letter case
    UpdateRow(StrCell(UuidUpper), HrOnlyRow),
    UpdateRow(StrCell("11111111-2222-3333-4444-555555555555"), CaseVariantRow),
    \* Object ID is not a UUID
    UpdateRow(StrCell("not-a-uuid"), MismatchRow),
    UpdateRow(NoCell, ManyProblemsRow),
    \* Object ID is an empty string
    UpdateRow(StrCell(""), BadFormatRow) }

BatchRows(c) == IF c = "update" THEN UpdateBatchRows ELSE CreateBatchRows

SmallBatches(c) ==
  UNION { [1..n -> BatchRows(c)] : n \in 0..MaxRows }

Pad4(k) ==
  (IF k < 10 THEN "000" ELSE IF k < 100 THEN "00" ELSE IF k < 1000 THEN "0" ELSE "")
  \o natToString(k)

\* the k-th of a family of pairwise distinct, fully valid rows
DistinctRow(c, k) ==
  LET address == StrCell("u" \o natToString(k) \o "@majorel.com")
      r == CreateRow(address, address, NumCell(k + 1000), StrCell(""), Ann, Ann, Berlin)
  IN  IF c = "update"
        THEN UpdateRow(StrCell("3fa85f64-5717-4562-b3fc-2c963f66" \o Pad4(k)), r)
        ELSE r

\* n distinct valid rows, optionally with the last one replaced
LargeBatches(c) ==
  UNION { { [k \in 1..n |-> DistinctRow(c, k)],
            [k \in 1..n |-> IF k = n THEN DistinctRow(c, 1) ELSE DistinctRow(c, k)],
            [k \in 1..n |-> IF k = n
                              THEN EmptyRow(IF c = "update" THEN 20 ELSE 19)
                              ELSE DistinctRow(c, k)] }
          : n \in (MAX_DATA_ROWS - 1)..(MAX_DATA_ROWS + MaxOver) }

Batches(c) == SmallBatches(c) \cup LargeBatches(c)

\* ------------------------------------------------------------------------
\* State
\* ------------------------------------------------------------------------

VARIABLES
  cfg,          \* which verifier instance / tab: "create" or "update"
  rows,         \* the batch: the data body values of the table
  returned,     \* the engine functions that have returned at least once
  result,       \* last value returned by verify
  rowIndex,     \* rowIndex argument of the last row-level call
  description,  \* last value returned by getRowProblemDescription
  messages,     \* last value returned by getRowValidationErrorMessages
  duplicateRows, \* last value returned by findRowsWithDuplicateUniqueValues
  table,        \* the CreateUsers / UpdateUsers table of the workbook
  pc,           \* position of handleRunCreate / handleRunUpdate
  submitted,    \* row indices passed to createUser / updateUser, in call order
  lastStatus,   \* status of the last createUser / updateUser result
  calls,        \* the engine calls of a call sequence, with what each returned
  address,      \* the text given to isValidEmailFormat and parseEmail
  validFormat,  \* last value returned by isValidEmailFormat
  parsed,       \* last value returned by parseEmail
  logRows,      \* row indices of the entries pushed to logRows, in order
  logTable,     \* row indices of the rows of the log table in the workbook
  statuses,     \* the statuses createUser / updateUser returned in this run
  lastError,    \* error of the last createUser / updateUser result
  fills,        \* fill colour of each row of the data body, "" when clear
  notes,        \* the notes on the worksheet: [row, text], row -1 when the
                \* note is not on the first cell of a data row
  legacyResult,      \* last value returned by a standalone verify function
  legacyDescription, \* last value returned by a standalone description function
  lookup,       \* outcome of the existence lookup of the createUser call
  post,         \* outcome of the POST of the createUser call
  created,      \* what the createUser call resolved to
  dialogApiResult,      \* AccountManager._dialogApiResult: 0 for null, else
                        \* the number of the attempt whose promise it holds
  usingFallbackDialog,  \* AccountManager._usingFallbackDialog
  promises,     \* state of the promise of each getTokenWithDialogApi attempt
  dialogs,      \* state of the dialog of each attempt
  synchronous,  \* attempts whose displayDialogAsync callback ran before
                \* displayDialogAsync returned
  attempts,     \* number of getTokenWithDialogApi calls so far
  callerPc,     \* position of each acquireToken caller
  callerGot,    \* attempt whose promise the caller was given, 0 for none
  callerHit     \* state that promise had when it was taken from the cache

parseVars == << address, validFormat, parsed >>

\* the variables of the parts of the add-in outside the engine and the
\* submission flows
legacyVars == << legacyResult, legacyDescription >>
createVars == << lookup, post, created >>
dialogVars == << dialogApiResult, usingFallbackDialog, promises, dialogs,
                synchronous, attempts, callerPc, callerGot, callerHit >>
otherVars == << parseVars, legacyVars, createVars, dialogVars >>

vars == << cfg, rows, returned, result, rowIndex, description, messages,
           duplicateRows, table, pc, submitted, lastStatus, calls, logRows,
           logTable, statuses, lastError, fills, notes, otherVars >>

engineVars ==
  << returned, result, rowIndex, description, messages, duplicateRows, calls >>
logVars == << logRows, logTable, statuses, lastError >>
sheetVars == << fills, notes >>
flowVars == << table, pc, submitted, lastStatus, logVars, sheetVars, sheetVars >>

NoTable == [present |-> FALSE, values |-> << >>]

NoResult ==
  [success |-> FALSE, totalRows |-> 0, okCount |-> 0, problemCount |-> 0,
   problemRowIndices |-> << >>, noInputTable |-> FALSE]

InitEngine ==
  /\ returned = {}
  /\ result = NoResult
  /\ rowIndex = -1
  /\ description = ""
  /\ messages = << >>
  /\ duplicateRows = << >>
  /\ calls = << >>

NoAddress == [ok |-> FALSE, local |-> "", domain |-> ""]

\* no address has been parsed
InitNoParse ==
  /\ address = ""
  /\ validFormat = FALSE
  /\ parsed = NoAddress

\* no standalone validator has been called
InitNoLegacy ==
  /\ legacyResult = NoResult
  /\ legacyDescription = ""

\* createUser has not been called on its own
NoUserResult ==
  [objectId |-> "null", generatedPassword |-> "null", status |-> "none",
   error |-> "", posted |-> FALSE, rejected |-> FALSE]

InitNoCreate ==
  /\ lookup = "none"
  /\ post = "created"
  /\ created = NoUserResult

MaxAttempts == 2
MaxCallers == 2
Attempts == 1..MaxAttempts
Callers == 1..MaxCallers

\* the AccountManager after initialize(), nothing called on it
InitNoDialog ==
  /\ dialogApiResult = 0
  /\ usingFallbackDialog = FALSE
  /\ promises = [n \in Attempts |-> "none"]
  /\ dialogs = [n \in Attempts |-> "none"]
  /\ synchronous = {}
  /\ attempts = 0
  /\ callerPc = [c \in Callers |-> "idle"]
  /\ callerGot = [c \in Callers |-> 0]
  /\ callerHit = [c \in Callers |-> "none"]

InitOtherThanParse == InitNoLegacy /\ InitNoCreate /\ InitNoDialog

\* nothing outside the engine and the submission flows has run
InitOther == InitNoParse /\ InitOtherThanParse

\* no submission handler is running
\* nothing has been submitted or logged
InitNoLog ==
  /\ logRows = << >>
  /\ logTable = << >>
  /\ statuses = {}
  /\ lastError = ""

PROBLEM_FILL == "#FFF3CD"

\* a note left on the first cell of the data body by an earlier run
StaleNote == [row |-> 0, text |-> "Required field 'Mail' is empty"]

\* no worksheet is looked at
InitNoSheet ==
  /\ fills = << >>
  /\ notes = {}

InitNoFlow ==
  /\ table = NoTable
  /\ pc = "idle"
  /\ submitted = << >>
  /\ lastStatus = "none"
  /\ InitNoLog
  /\ InitNoSheet

Init ==
  /\ cfg \in {"create", "update"}
  /\ rows \in Batches(cfg)
  /\ InitEngine
  /\ InitOther
  /\ InitNoFlow

\* the rowIndex arguments tried on a batch of n rows: every index of a small
\* batch, the first and last ones of a large batch, and one on either side
DescribeIndices(n) == { i \in -1..n : i < MaxRows \/ i >= n - 2 }

\* a cell with its text trimmed
trimmedCell(raw) == IF raw.kind = "string" THEN StrCell(trim(raw.str)) ELSE raw

\* Verify storing each trimmed cell back into its row
VerifyWritingBack ==
  /\ "verify" \notin returned
  /\ result' = verify(Config(cfg), rows)
  /\ duplicateRows' =
       findRowsWithDuplicateUniqueValues(rows, Config(cfg).uniqueColumns)
  /\ returned' = returned \cup {"verify"}
  /\ rows' = [i \in DOMAIN rows |-> [c \in DOMAIN rows[i] |-> trimmedCell(rows[i][c])]]
  /\ UNCHANGED << cfg, rowIndex, description, messages, calls, flowVars, otherVars >>

\* verifyUsers(rows) / verifyUpdateUsers(rows)
Verify ==
  /\ "verify" \notin returned
  /\ result' = verify(Config(cfg), rows)
  /\ duplicateRows' =
       findRowsWithDuplicateUniqueValues(rows, Config(cfg).uniqueColumns)
  /\ returned' = returned \cup {"verify"}
  /\ UNCHANGED << cfg, rows, rowIndex, description, messages, calls, flowVars, otherVars >>

\* getRowProblemDescription(rows, i) / getUpdateRowProblemDescription(rows, i)
Describe ==
  \E i \in DescribeIndices(Len(rows)) :
    /\ "describe" \notin returned
    /\ rowIndex' = i
    /\ description' = getRowProblemDescription(Config(cfg), rows, i)
    /\ returned' = returned \cup {"describe"}
    /\ UNCHANGED << cfg, rows, result, messages, duplicateRows, calls, flowVars,
                    otherVars >>

Next == Verify \/ Describe

Spec == Init /\ [][Next]_vars

\* ------------------------------------------------------------------------
\* The row evaluator on single rows
\* ------------------------------------------------------------------------

UpnCells ==
  { StrCell("a.b@majorel.com"), StrCell("A.B@MAJOREL.COM"), StrCell("x.y@other.org"),
    StrCell("a.b"), StrCell("a@b@majorel.com"), StrCell("") }

MailCells ==
  { StrCell("a.b@majorel.com"), StrCell("A.B@MJ.Teleperformance.com"),
    StrCell("x.y@majorel.com"), StrCell("a.b@example.org"), StrCell("@majorel.com"),
    StrCell(" a.b @ majorel.com "), StrCell("a.b@mj.teleperformance.com"),
    StrCell("") }

BmsIdCells ==
  { StrCell(""), StrCell("0"), StrCell("007"), NumCell(123), NumCell(-5),
    StrCell("01"), StrCell("1.5") }

LocalHrIdCells == { StrCell(""), StrCell("H1"), StrCell("  ") }

FirstNameCells == { Ann, StrCell("") }

DisplayNameCells == { Ann, StrCell(" \t ") }

ObjectIdCells ==
  { StrCell(UuidLower), StrCell(UuidUpper), StrCell("not-a-uuid"), NoCell,
    \* 36 characters in the 8-4-4-4-12 layout, the last one not hexadecimal
    StrCell("3fa85f64-5717-4562-b3fc-2c963f66afag") }

CreateEvalRows ==
  { CreateRow(u, m, b, h, f, d, Berlin) :
      u \in UpnCells, m \in MailCells, b \in BmsIdCells, h \in LocalHrIdCells,
      f \in FirstNameCells, d \in DisplayNameCells }
  \cup
  \* rows shorter than the table: the cells beyond the end are undefined
  { SubSeq(ValidRow, 1, w) : w \in {0, 3, 8} }

UpdateEvalRows ==
  { UpdateRow(o, r) : o \in ObjectIdCells, r \in CreateEvalRows }

EvalRows(c) == IF c = "update" THEN UpdateEvalRows ELSE CreateEvalRows

InitRow ==
  /\ cfg \in {"create", "update"}
  /\ \E r \in EvalRows(cfg) : rows = << r >>
  /\ InitEngine
  /\ InitOther
  /\ InitNoFlow

\* getRowValidationErrorMessages(rows[i], config), as verify and
\* getRowProblemDescription call it
Evaluate ==
  \E i \in 0..(Len(rows) - 1) :
    /\ "evaluate" \notin returned
    /\ rowIndex' = i
    /\ messages' = getRowValidationErrorMessages(rows[i + 1], Config(cfg))
    /\ returned' = returned \cup {"evaluate"}
    /\ UNCHANGED << cfg, rows, result, description, duplicateRows, calls, flowVars,
                    otherVars >>

NextRow == Evaluate

SpecRow == InitRow /\ [][NextRow]_vars

\* ------------------------------------------------------------------------
\* The engine on malformed batches: rows of any width, cells of any kind
\* ------------------------------------------------------------------------

\* longest malformed batch
MaxRagged == 2

RaggedRows ==
  { << >>,
    SubSeq(ValidRow, 1, 3),
    SubSeq(ValidRow, 1, 8),
    \* wider than the table
    ValidRow \o << StrCell("extra"), NumCell(1) >>,
    UpdateRow(StrCell(UuidLower), ValidRow),
    \* numbers and absent cells where text is expected
    << NumCell(42), NoCell, NumCell(-5), NoCell, NoCell, NumCell(7), NoCell,
       NumCell(0), NoCell, NumCell(12) >>,
    << StrCell("@"), StrCell("@@"), StrCell("1e3"), StrCell("\t"), NoCell,
       StrCell(" ") >>,
    << NoCell, StrCell("a.b@majorel.com"), StrCell("a.b@majorel.com") >> }

RaggedBatches == UNION { [1..n -> RaggedRows] : n \in 0..MaxRagged }

InitRagged ==
  /\ cfg \in {"create", "update"}
  /\ rows \in RaggedBatches
  /\ InitEngine
  /\ InitOther
  /\ InitNoFlow

SpecRagged == InitRagged /\ [][Next]_vars

\* ------------------------------------------------------------------------
\* Sequences of calls on the two verifier instances of the module
\* ------------------------------------------------------------------------

\* longest call sequence
MaxCalls == 3

\* the batches passed in a call sequence
CallBatches(c) ==
  IF c = "update"
    THEN { << UpdateRow(StrCell(UuidLower), ValidRow),
              UpdateRow(StrCell("not-a-uuid"), ManyProblemsRow) >>,
           << UpdateRow(StrCell(UuidUpper), HrOnlyRow) >> }
    ELSE { << ValidRow, ManyProblemsRow >>, << HrOnlyRow >> }

NoCall(fn, c, b, i) ==
  [fn |-> fn, cfg |-> c, rows |-> b, rowIndex |-> i,
   result |-> NoResult, description |-> ""]

InitCalls ==
  /\ cfg = "create"
  /\ rows = << >>
  /\ InitEngine
  /\ InitOther
  /\ InitNoFlow

\* CallVerify with problemRowIndicesSet kept by the closure between calls
CallVerifyAccumulating ==
  \E c \in {"create", "update"} : \E b \in CallBatches(c) :
    /\ Len(calls) < MaxCalls
    /\ cfg' = c
    /\ rows' = b
    /\ result' = resultOf(Len(b),
                    sortAscending(setFrom(result.problemRowIndices
                                          \o problemRowIndicesOf(Config(c), b))))
    /\ duplicateRows' = findRowsWithDuplicateUniqueValues(b, Config(c).uniqueColumns)
    /\ returned' = returned \cup {"verify"}
    /\ calls' = Append(calls, [NoCall("verify", c, b, -1) EXCEPT !.result = result'])
    /\ UNCHANGED << rowIndex, description, messages, flowVars, otherVars >>

\* one more call of verifyUsers / verifyUpdateUsers, on any of the batches
CallVerify ==
  \E c \in {"create", "update"} : \E b \in CallBatches(c) :
    /\ Len(calls) < MaxCalls
    /\ cfg' = c
    /\ rows' = b
    /\ result' = verify(Config(c), b)
    /\ duplicateRows' = findRowsWithDuplicateUniqueValues(b, Config(c).uniqueColumns)
    /\ returned' = returned \cup {"verify"}
    /\ calls' = Append(calls, [NoCall("verify", c, b, -1) EXCEPT !.result = result'])
    /\ UNCHANGED << rowIndex, description, messages, flowVars, otherVars >>

\* one more call of getRowProblemDescription / getUpdateRowProblemDescription
CallDescribe ==
  \E c \in {"create", "update"} : \E b \in CallBatches(c) :
    \E i \in 0..(Len(b) - 1) :
      /\ Len(calls) < MaxCalls
      /\ cfg' = c
      /\ rows' = b
      /\ rowIndex' = i
      /\ description' = getRowProblemDescription(Config(c), b, i)
      /\ returned' = returned \cup {"describe"}
      /\ calls' = Append(calls, [NoCall("describe", c, b, i)
                                   EXCEPT !.description = description'])
      /\ UNCHANGED << result, messages, duplicateRows, flowVars, otherVars >>

NextCalls == CallVerify \/ CallDescribe

SpecCalls == InitCalls /\ [][NextCalls]_vars

\* ------------------------------------------------------------------------
\* Submission flows: handleRunCreate (Create tab), handleRunUpdate (Update tab)
\* ------------------------------------------------------------------------

\* graphHelpers: cell(row, index)
cell(row, index) == trim(StringOf(rowAt(row, index)))

\* a message taken from a Graph response or from a thrown error
GraphError == "<message of the response or of the error>"

UserResult(objectId, generatedPassword, status, error, posted) ==
  [objectId |-> objectId, generatedPassword |-> generatedPassword,
   status |-> status, error |-> error, posted |-> posted, rejected |-> FALSE]

\* outcomes of userExistsByUpn's GET: a user is listed, none is listed, the
\* response is not OK, fetch or response.json() throws
LookupOutcomes == {"found", "none", "notOk", "throws"}

\* outcomes of the POST: 201 with an id, 201 without an id, another status,
\* fetch or the reading of the response throws
PostOutcomes == {"created", "createdNoId", "refused", "throws"}

\* userExistsByUpn answering true when its request throws
userExistsByUpnThrowMeansExists(outcome) ==
  CASE outcome = "found" -> "true"
    [] outcome = "throws" -> "true"
    [] OTHER -> "false"

\* userExistsByUpn; a throw is modelled as the value "throws"
userExistsByUpn(outcome) ==
  CASE outcome = "found" -> "true"
    [] outcome = "throws" -> "throws"
    [] OTHER -> "false"

\* the POST part of createUser
postUser(outcome) ==
  CASE outcome = "created" -> UserResult("id", "password", "success", "", TRUE)
    [] outcome = "createdNoId" -> UserResult("null", "password", "success", "", TRUE)
    [] outcome = "refused" -> UserResult("null", "null", "error", GraphError, TRUE)
    [] OTHER -> UserResult("null", "null", "error", GraphError, TRUE)

\* createUser testing the BMS ID cell in its first statement
createUserReadingBmsId(row, lookupOutcome, postOutcome) ==
  LET upn == cell(row, 2)
  IN  IF upn = ""
        THEN UserResult("null", "null", "error", "userPrincipalName is required", FALSE)
        ELSE IF userExistsByUpn(lookupOutcome) = "true"
          THEN UserResult("null", "null", "skipped", "UPN already exists", FALSE)
          ELSE postUser(postOutcome)

\* createUser(row, accessToken) under the given outcomes of its two requests
createUser(row, lookupOutcome, postOutcome) ==
  LET upn == cell(row, 0)
  IN  IF upn = ""
        THEN UserResult("null", "null", "error", "userPrincipalName is required", FALSE)
        ELSE IF userExistsByUpn(lookupOutcome) = "true"
          THEN UserResult("null", "null", "skipped", "UPN already exists", FALSE)
          \* "false", or the throw caught by the first try
          ELSE postUser(postOutcome)

\* outcomes of the PATCH: 204 or OK, another status, fetch throws
PatchOutcomes == {"ok", "refused", "throws"}

\* updateUser(row, accessToken) under the given outcome of its request
updateUser(row, patch) ==
  LET objectId == cell(row, 0)
  IN  IF objectId = ""
        THEN [status |-> "error", error |-> "Object ID is required", patched |-> FALSE]
        ELSE IF patch = "ok"
          THEN [status |-> "success", error |-> "", patched |-> TRUE]
          ELSE [status |-> "error", error |-> GraphError, patched |-> TRUE]

\* the status and error of the results createUser / updateUser can resolve to
SubmitResults(c, row) ==
  IF c = "update"
    THEN { [status |-> updateUser(row, p).status, error |-> updateUser(row, p).error] :
             p \in PatchOutcomes }
    ELSE { [status |-> createUser(row, l, p).status,
            error |-> createUser(row, l, p).error] :
             l \in LookupOutcomes, p \in PostOutcomes }

\* statuses createUser / updateUser can resolve to
SubmitStatuses(c) ==
  IF c = "update" THEN {"success", "error"} ELSE {"success", "skipped", "error"}

InitFlow ==
  /\ cfg \in {"create", "update"}
  /\ table \in {NoTable} \cup { [present |-> TRUE, values |-> b] : b \in Batches(cfg) }
  /\ rows = << >>
  /\ InitEngine
  /\ InitOther
  /\ pc = "idle"
  /\ submitted = << >>
  /\ lastStatus = "none"
  /\ InitNoLog
  \* the sheet as an earlier run on other data left it
  /\ fills = [i \in 1..Len(table.values) |-> PROBLEM_FILL]
  /\ notes = {StaleNote}

\* the Create / Update button is pressed
RunStart ==
  /\ pc = "idle"
  /\ pc' = "token"
  /\ UNCHANGED << cfg, rows, engineVars, table, submitted, lastStatus, logVars, sheetVars,
                  otherVars >>

\* await getAccessToken([...]): resolves, or rejects into the handler's catch
AcquireToken ==
  /\ pc = "token"
  /\ pc' \in {"run", "failed"}
  /\ UNCHANGED << cfg, rows, engineVars, table, submitted, lastStatus, logVars, sheetVars,
                  otherVars >>

\* ensureInputAndGetTable and the hasTableData test; one of its syncs may
\* reject into the handler's catch
ReadTable ==
  /\ pc = "run"
  /\ \/ /\ ~table.present
        /\ result' = noInputTableResult
        /\ pc' = "done"
        /\ rows' = rows
     \/ /\ table.present
        /\ rows' = table.values
        /\ pc' = "read"
        /\ result' = result
     \/ /\ pc' = "failed"
        /\ UNCHANGED << rows, result >>
  /\ UNCHANGED << cfg, returned, rowIndex, description, messages, duplicateRows,
                  calls, table, submitted, lastStatus, logVars, sheetVars, otherVars >>

\* const verifyResultData = verifyUsers(rows) / verifyUpdateUsers(rows)
VerifyRows ==
  /\ pc = "read"
  /\ result' = verify(Config(cfg), rows)
  /\ duplicateRows' =
       findRowsWithDuplicateUniqueValues(rows, Config(cfg).uniqueColumns)
  /\ returned' = returned \cup {"verify"}
  /\ pc' = "verified"
  /\ UNCHANGED << cfg, rows, rowIndex, description, messages, calls, table,
                  submitted, lastStatus, logVars, sheetVars, otherVars >>

\* the fills queued by applyVerifyResultToSheet
filledRows(batch, verifyResult) ==
  IF Len(verifyResult.problemRowIndices) > 0
    THEN LET problemSet ==
               { verifyResult.problemRowIndices[k] :
                   k \in DOMAIN verifyResult.problemRowIndices }
         IN  [i \in 1..Len(batch) |->
                IF (i - 1) \in problemSet THEN PROBLEM_FILL ELSE ""]
    ELSE [i \in 1..Len(batch) |-> ""]

\* the notes after note.delete() for every loaded note and notes.add for
\* every problem row; nothing of it happens for an empty data body
notesAdded(config, batch, verifyResult, before) ==
  IF Len(batch) > 0
    THEN { [row |-> verifyResult.problemRowIndices[k],
            text |-> getRowProblemDescription(config, batch,
                       verifyResult.problemRowIndices[k])] :
             k \in DOMAIN verifyResult.problemRowIndices }
    ELSE before

\* await applyVerifyResultToSheet(...): completes, or one of its syncs
\* rejects with any part of the queued changes applied
ApplyVerifyResult ==
  /\ pc = "verified"
  /\ LET filled == filledRows(rows, result)
         added == notesAdded(Config(cfg), rows, result, notes)
     IN  \/ /\ pc' = "applied"
            /\ fills' = filled
            /\ notes' = added
         \/ /\ pc' = "failed"
            /\ \/ fills' = fills /\ notes' = notes
               \/ fills' = filled /\ notes' \in {notes, added}
  /\ UNCHANGED << cfg, rows, engineVars, table, submitted, lastStatus, logVars,
                  otherVars >>

\* SubmitGate testing noInputTable alone
SubmitGateIgnoringSuccess ==
  /\ pc = "applied"
  /\ pc' = IF result.noInputTable THEN "done" ELSE "submitting"
  /\ UNCHANGED << cfg, rows, engineVars, table, submitted, lastStatus, logVars, sheetVars,
                  otherVars >>

\* if (!verifyResultData.success || verifyResultData.noInputTable) return
SubmitGate ==
  /\ pc = "applied"
  /\ pc' = IF ~result.success \/ result.noInputTable THEN "done" ELSE "submitting"
  /\ UNCHANGED << cfg, rows, engineVars, table, submitted, lastStatus, logVars, sheetVars,
                  otherVars >>

\* one iteration of for (const row of rows): await createUser / updateUser,
\* then logRows.push
SubmitRow ==
  /\ pc = "submitting"
  /\ Len(submitted) < Len(rows)
  /\ submitted' = Append(submitted, Len(submitted))
  /\ \E r \in SubmitResults(cfg, rows[Len(submitted) + 1]) :
       /\ lastStatus' = r.status
       /\ lastError' = r.error
       /\ statuses' = statuses \cup {r.status}
  /\ logRows' = Append(logRows, Len(submitted))
  /\ UNCHANGED << cfg, rows, engineVars, table, pc, logTable, sheetVars, otherVars >>

\* RunFinish with a loop that ends at the first 'error' result
RunFinishAtFirstError ==
  /\ pc = "submitting"
  /\ Len(submitted) = Len(rows) \/ lastStatus = "error"
  /\ \/ pc' = "done" /\ logTable' = logRows
     \/ pc' = "failed" /\ logTable' \in {logTable, logRows}
  /\ UNCHANGED << cfg, rows, engineVars, table, submitted, lastStatus, logRows,
                  statuses, lastError, sheetVars, otherVars >>

\* after the loop: logTable.rows.add(undefined, logRows) if there are any,
\* then context.sync(), which applies the queued changes or rejects with any
\* part of them applied
RunFinish ==
  /\ pc = "submitting"
  /\ Len(submitted) = Len(rows)
  /\ \/ pc' = "done" /\ logTable' = logRows
     \/ pc' = "failed" /\ logTable' \in {logTable, logRows}
  /\ UNCHANGED << cfg, rows, engineVars, table, submitted, lastStatus, logRows,
                  statuses, lastError, sheetVars, otherVars >>

\* what the user's table holds after an edit: the last row deleted, or a row
\* added to an empty table
EditedValues(c, values) ==
  IF Len(values) > 0 THEN SubSeq(values, 1, Len(values) - 1)
  ELSE << IF c = "update" THEN UpdateRow(StrCell(UuidLower), ValidRow) ELSE ValidRow >>

\* the user edits the table while the handler is suspended at an await
EditTable ==
  /\ pc \in {"read", "verified", "applied", "submitting"}
  /\ table.present
  /\ table.values = rows
  /\ table' = [table EXCEPT !.values = EditedValues(cfg, rows)]
  /\ UNCHANGED << cfg, rows, engineVars, pc, submitted, lastStatus, logVars, sheetVars,
                  otherVars >>

NextFlow ==
  \/ EditTable
  \/ RunStart
  \/ AcquireToken
  \/ ReadTable
  \/ VerifyRows
  \/ ApplyVerifyResult
  \/ SubmitGate
  \/ SubmitRow
  \/ RunFinish

SpecFlow == InitFlow /\ [][NextFlow]_vars

\* ------------------------------------------------------------------------
\* Properties
\* ------------------------------------------------------------------------

Range(seq) == { seq[k] : k \in DOMAIN seq }

RowIndices == 0..(Len(rows) - 1)

\* the elements of a set of row indices in ascending order
Ascending(set) == SelectSeq(indexSeq(Len(rows)), LAMBDA i : i \in set)

\* the rows whose own evaluation gives at least one message
RowsWithMessages ==
  { i \in RowIndices : getRowValidationErrorMessages(rows[i + 1], Config(cfg)) # << >> }

UniqueColumnIndices ==
  { Config(cfg).uniqueColumns[k].index : k \in DOMAIN Config(cfg).uniqueColumns }

\* the rows that hold, in column c, a value that is non-empty after trimming
\* and equal, ignoring letter case, to the trimmed value of another row
CollidingRows(c) ==
  LET value == << >> \o [k \in 1..Len(rows) |-> trim(StringOf(rowAt(rows[k], c)))]
      lower == << >> \o [k \in 1..Len(rows) |-> toLowerCase(value[k])]
  IN  { i \in RowIndices :
          /\ value[i + 1] # ""
          /\ \E j \in RowIndices : j # i /\ lower[j + 1] = lower[i + 1] }

\* s begins with prefix
StartsWith(s, prefix) ==
  Len(s) >= Len(prefix) /\ SubSeq(s, 1, Len(prefix)) = prefix

\* part occurs somewhere in s
Contains(s, part) ==
  \E i \in 1..(Len(s) - Len(part) + 1) : SubSeq(s, i, i + Len(part) - 1) = part

\* the category of a message in the fixed sequence: 1 required field, 2 extra
\* validator, 3 either-or, 4 numeric-identifier format, 5 identity address,
\* 6 contact address, 7 local-part mismatch; 0 for any other text
Category(message) ==
  CASE StartsWith(message, "Required field '") -> 1
    [] message = "Object ID must be a valid UUID" -> 2
    [] message = "BMS ID and Local HR ID are both empty" -> 3
    [] message = "BMS ID must be a number (digits only, no leading zero)" -> 4
    [] StartsWith(message, "User Principal Name: ") -> 5
    [] StartsWith(message, "Mail: ") -> 6
    [] message = "User Principal Name and Mail local part do not match" -> 7
    [] OTHER -> 0

RequiredMessage(name) == "Required field '" \o name \o "' is empty"

\* the row the last row-level call was about
TheRow == rows[rowIndex + 1]

\* the text of TheRow's cell in column c, white space trimmed off
Text(c) == trim(StringOf(rowAt(TheRow, c)))

Columns == Config(cfg).columns

\* exactly one "@", with something on either side of it
WellFormedAddress(s) ==
  /\ Cardinality({ i \in 1..Len(s) : CharAt(s, i) = "@" }) = 1
  /\ CharAt(s, 1) # "@"
  /\ CharAt(s, Len(s)) # "@"

AtPosition(s) == CHOOSE i \in 1..Len(s) : CharAt(s, i) = "@"

\* the parts of a well-formed address, compared ignoring letter case
LocalPart(s) == toLowerCase(trim(SubSeq(s, 1, AtPosition(s) - 1)))
DomainPart(s) == toLowerCase(trim(SubSeq(s, AtPosition(s) + 1, Len(s))))

\* "0", or digits that do not begin with 0
WellFormedNumber(s) ==
  /\ Len(s) >= 1
  /\ \A i \in 1..Len(s) : IsDigit(CharAt(s, i))
  /\ (Len(s) > 1 => CharAt(s, 1) # "0")

\* the canonical 8-4-4-4-12 hexadecimal form, in either letter case
WellFormedUuid(s) ==
  /\ Len(s) = 36
  /\ \A i \in 1..36 :
       IF i \in {9, 14, 19, 24} THEN CharAt(s, i) = "-"
       ELSE Contains("0123456789abcdef", toLowerCase(CharAt(s, i)))

\* the conditions of the seven categories on TheRow, each stated on the
\* row's cells alone
MissingRequired(column) == Text(column.index) = ""
ExtraCondition ==
  cfg = "update" /\ Text(0) # "" /\ ~WellFormedUuid(Text(0))
EitherOrCondition == Text(Columns.bmsId) = "" /\ Text(Columns.localHrId) = ""
NumberFormatCondition ==
  Text(Columns.bmsId) # "" /\ ~WellFormedNumber(Text(Columns.bmsId))
UpnFormatCondition ==
  Text(Columns.userPrincipalName) # ""
    /\ ~WellFormedAddress(Text(Columns.userPrincipalName))
UpnDomainCondition ==
  /\ WellFormedAddress(Text(Columns.userPrincipalName))
  /\ DomainPart(Text(Columns.userPrincipalName)) # "majorel.com"
MailFormatCondition ==
  Text(Columns.mail) # "" /\ ~WellFormedAddress(Text(Columns.mail))
MailDomainCondition ==
  /\ WellFormedAddress(Text(Columns.mail))
  /\ DomainPart(Text(Columns.mail)) \notin {"majorel.com", "mj.teleperformance.com"}
MismatchCondition ==
  /\ WellFormedAddress(Text(Columns.userPrincipalName))
  /\ WellFormedAddress(Text(Columns.mail))
  /\ LocalPart(Text(Columns.userPrincipalName)) # LocalPart(Text(Columns.mail))

\* C1: for the create and the update verifier, verify(rows) returns totalRows =
\* number of rows, problemCount = length of problemRowIndices, okCount +
\* problemCount = totalRows with okCount >= 0, and problemRowIndices strictly
\* increasing with every element in 0..totalRows-1.
C1_VerifyResultInvariant ==
  "verify" \in returned =>
    LET p == result.problemRowIndices
    IN  /\ result.totalRows = Len(rows)
        /\ result.problemCount = Len(p)
        /\ result.okCount + result.problemCount = result.totalRows
        /\ result.okCount >= 0
        /\ \A k \in 1..(Len(p) - 1) : p[k] < p[k + 1]
        /\ \A k \in 1..Len(p) : p[k] \in 0..(result.totalRows - 1)

\* a verified update batch with an unflagged row and a row that has both
\* messages of its own and a duplicated value
C1_Witness ==
  /\ "verify" \in returned
  /\ cfg = "update"
  /\ result.okCount >= 1
  /\ RowsWithMessages \cap Range(duplicateRows) # {}

\* C2: verify(rows).success is true if and only if problemCount = 0 and
\* totalRows <= 100; an empty batch succeeds (and so does a batch of exactly
\* 100 problem-free rows).
C2_SuccessIffNoProblemsWithinCeiling ==
  "verify" \in returned =>
    /\ result.success <=> (result.problemCount = 0 /\ Len(rows) <= 100)
    /\ Len(rows) = 0 => result.success
    /\ (Len(rows) = 100 /\ RowsWithMessages = {} /\ Range(duplicateRows) = {})
         => result.success

\* a batch of exactly 100 rows was verified and succeeded
C2_Witness ==
  /\ "verify" \in returned
  /\ Len(rows) = 100
  /\ result.success

\* C3: within one run of handleRunCreate / handleRunUpdate, createUser /
\* updateUser is called only after verify was called on that run's rows and
\* returned success = true; a run that finds no table, or whose verification
\* returns success = false, ends with no createUser / updateUser call.
C3_SubmitOnlyAfterSuccessfulVerify ==
  /\ pc = "verified" => result = verify(Config(cfg), rows)
  /\ Len(submitted) > 0 =>
       /\ "verify" \in returned
       /\ table.present
       /\ result.totalRows = Len(rows)
       /\ result.success
  /\ (pc \in {"done", "failed"} /\ (~table.present \/ ~result.success)) =>
       Len(submitted) = 0

\* a run that verified a batch of at least two rows and then called
\* createUser / updateUser once per row, in order, has ended
C3_Witness ==
  /\ pc = "done"
  /\ Len(rows) >= 2
  /\ submitted = indexSeq(Len(rows))
  /\ lastStatus = "success"

\* C4: verify(rows).problemRowIndices is exactly the sorted union of the rows
\* whose own evaluation is non-empty and the rows returned by the uniqueness
\* detector.
C4_ProblemRowsAreSortedUnion ==
  "verify" \in returned =>
    result.problemRowIndices = Ascending(RowsWithMessages \cup Range(duplicateRows))

\* a row without any message of its own is listed for a duplicate, next to a
\* row that is not listed
C4_Witness ==
  /\ "verify" \in returned
  /\ Range(result.problemRowIndices) \ RowsWithMessages # {}
  /\ RowIndices \ Range(result.problemRowIndices) # {}

\* C5: findRowsWithDuplicateUniqueValues(rows, uniqueColumns) contains row i if
\* and only if, in some unique column, row i's trimmed value is non-empty and
\* equals another row's trimmed value ignoring letter case; rows sharing only
\* empty values are not flagged.
C5_DuplicateRowsIffCollision ==
  "verify" \in returned =>
    Range(duplicateRows) = UNION { CollidingRows(c) : c \in UniqueColumnIndices }

\* two rows share an empty value in a unique column and are not flagged,
\* while other rows of the batch are
C5_Witness ==
  /\ "verify" \in returned
  /\ Range(duplicateRows) # {}
  /\ \E i, j \in RowIndices :
       /\ i # j
       /\ i \notin Range(duplicateRows)
       /\ j \notin Range(duplicateRows)
       /\ \E c \in UniqueColumnIndices :
            cellValue(rows[i + 1], c) = "" /\ cellValue(rows[j + 1], c) = ""

\* C6: the list returned by the row evaluator follows the fixed category
\* sequence: required-field messages in the order of requiredColumns, then
\* extra-validator messages, the either-or message, the numeric-identifier
\* format message, the identity-address message, the contact-address message
\* and the local-part mismatch message; no message of a later category
\* precedes one of an earlier category.
C6_MessagesFollowCategoryOrder ==
  "evaluate" \in returned =>
    LET expected == [k \in DOMAIN Config(cfg).requiredColumns |->
                       RequiredMessage(Config(cfg).requiredColumns[k].name)]
    IN  /\ \A k \in DOMAIN messages : Category(messages[k]) \in 1..7
        /\ \A k \in 1..(Len(messages) - 1) :
             \/ Category(messages[k]) < Category(messages[k + 1])
             \/ Category(messages[k]) = 1 /\ Category(messages[k + 1]) = 1
        /\ SelectSeq(messages, LAMBDA m : Category(m) = 1)
             = SelectSeq(expected, LAMBDA m : m \in Range(messages))

\* an evaluation that returned two required-field messages and a message of
\* each of the categories 2, 4, 5, 6 and 7
C6_Witness ==
  /\ "evaluate" \in returned
  /\ { Category(messages[k]) : k \in DOMAIN messages } = {1, 2, 4, 5, 6, 7}
  /\ Len(messages) = 7

\* the preconditions of C7 on TheRow
AllRequiredPresent ==
  \A k \in DOMAIN Config(cfg).requiredColumns :
    ~MissingRequired(Config(cfg).requiredColumns[k])

CleanRow ==
  /\ AllRequiredPresent
  /\ ~UpnFormatCondition /\ ~MailFormatCondition
  /\ ~UpnDomainCondition /\ ~MailDomainCondition
  /\ ~MismatchCondition
  /\ ~NumberFormatCondition
  /\ ~EitherOrCondition

\* C7 as stated: for every row, under the create or the update configuration,
\* with all required fields present, valid-format addresses, domains in the
\* allowed sets, matching local parts, a well-formed-or-absent numeric
\* identifier and at least one of the two identifiers present, the row
\* evaluator returns an empty list.
C7_AsStated ==
  ("evaluate" \in returned /\ CleanRow) => messages = << >>

\* C7: for every such row whose object identifier, under the update
\* configuration, is moreover a well-formed UUID, the row evaluator returns an
\* empty list.
C7_CleanRowHasNoMessages ==
  ("evaluate" \in returned /\ CleanRow /\ (cfg = "update" => WellFormedUuid(Text(0))))
    => messages = << >>

\* an update row with an upper-case UUID and addresses in mixed letter case
\* was evaluated to the empty list
C7_Witness ==
  /\ "evaluate" \in returned
  /\ cfg = "update"
  /\ CleanRow
  /\ Text(0) = UuidUpper
  /\ Text(Columns.userPrincipalName) # toLowerCase(Text(Columns.userPrincipalName))
  /\ messages = << >>

\* C8: when the cell of a required column R is empty (absent, empty string or
\* white space only), the evaluator's list contains `Required field '<name>'
\* is empty` for R exactly once, no other message of the list names R, and
\* that message stands before every message of a later category and in the
\* order of requiredColumns among the required-field messages.
C8_MissingRequiredNamedOnce ==
  "evaluate" \in returned =>
    \A k \in DOMAIN Config(cfg).requiredColumns :
      LET column == Config(cfg).requiredColumns[k]
          naming == { p \in DOMAIN messages : Contains(messages[p], column.name) }
      IN  MissingRequired(column) =>
            /\ Cardinality(naming) = 1
            /\ \A p \in naming :
                 /\ messages[p] = RequiredMessage(column.name)
                 /\ \A q \in DOMAIN messages :
                      Category(messages[q]) # 1 => p < q
                 /\ \A j \in DOMAIN Config(cfg).requiredColumns :
                      \A q \in DOMAIN messages :
                        messages[q] = RequiredMessage(Config(cfg).requiredColumns[j].name)
                          => ((j < k) <=> (q < p)) /\ ((j = k) <=> (q = p))

\* a row whose First Name is empty and whose Display Name is white space, with
\* messages of later categories as well, was evaluated
C8_Witness ==
  /\ "evaluate" \in returned
  /\ Len(TheRow) >= 19
  /\ \E k \in DOMAIN Config(cfg).requiredColumns :
       /\ Config(cfg).requiredColumns[k].name = "Display Name"
       /\ StringOf(rowAt(TheRow, Config(cfg).requiredColumns[k].index)) # ""
       /\ MissingRequired(Config(cfg).requiredColumns[k])
  /\ RequiredMessage("First Name") \in Range(messages)
  /\ RequiredMessage("Display Name") \in Range(messages)
  /\ \E q \in DOMAIN messages : Category(messages[q]) > 1

\* TheRow holds, in column c, a value that is non-empty after trimming and
\* equal, ignoring letter case, to the trimmed value of another row
Collides(c) ==
  /\ Text(c) # ""
  /\ \E j \in RowIndices \ {rowIndex} :
       toLowerCase(trim(StringOf(rowAt(rows[j + 1], c)))) = toLowerCase(Text(c))

DuplicateMessage(name) == "Duplicate value in '" \o name \o "'"

\* some row-level or batch-level condition holds of TheRow
AnyCondition ==
  \/ ~AllRequiredPresent
  \/ ExtraCondition \/ EitherOrCondition \/ NumberFormatCondition
  \/ UpnFormatCondition \/ UpnDomainCondition
  \/ MailFormatCondition \/ MailDomainCondition
  \/ MismatchCondition
  \/ \E c \in UniqueColumnIndices : Collides(c)

\* C9: row-level conditions are collected, never short-circuited: each
\* category's message is reported for a row exactly when that category's own
\* condition holds, whatever the other categories reported (the duplicate ones
\* by the duplicate messages of the description), and verify lists the row
\* exactly when some condition holds.
C9_EveryConditionReported ==
  ("describe" \in returned /\ rowIndex \in RowIndices) =>
    LET lines == Range(split(description, PROBLEM_MESSAGE_SEPARATOR))
    IN  /\ \A k \in DOMAIN Config(cfg).requiredColumns :
             RequiredMessage(Config(cfg).requiredColumns[k].name) \in lines
               <=> MissingRequired(Config(cfg).requiredColumns[k])
        /\ "Object ID must be a valid UUID" \in lines <=> ExtraCondition
        /\ "BMS ID and Local HR ID are both empty" \in lines <=> EitherOrCondition
        /\ "BMS ID must be a number (digits only, no leading zero)" \in lines
             <=> NumberFormatCondition
        /\ "User Principal Name: invalid format" \in lines <=> UpnFormatCondition
        /\ "User Principal Name: domain must be majorel.com" \in lines
             <=> UpnDomainCondition
        /\ "Mail: invalid format" \in lines <=> MailFormatCondition
        /\ "Mail: domain must be one of majorel.com, mj.teleperformance.com" \in lines
             <=> MailDomainCondition
        /\ "User Principal Name and Mail local part do not match" \in lines
             <=> MismatchCondition
        /\ \A k \in DOMAIN Config(cfg).uniqueColumns :
             DuplicateMessage(Config(cfg).uniqueColumns[k].name) \in lines
               <=> Collides(Config(cfg).uniqueColumns[k].index)
        /\ "verify" \in returned =>
             (rowIndex \in Range(result.problemRowIndices) <=> AnyCondition)

\* a row with a missing required field, a malformed numeric identifier, a
\* wrong contact-address domain and a duplicated unique value was described
\* and verified
C9_Witness ==
  /\ {"describe", "verify"} \subseteq returned
  /\ rowIndex \in RowIndices
  /\ ~AllRequiredPresent
  /\ NumberFormatCondition
  /\ MailDomainCondition
  /\ \E c \in UniqueColumnIndices : Collides(c)
  /\ rowIndex \in Range(result.problemRowIndices)
  /\ Len(split(description, PROBLEM_MESSAGE_SEPARATOR)) >= 4

\* the `Duplicate value in '<name>'` messages of TheRow, one per unique column
\* in which it collides, in the order of uniqueColumns
DuplicateMessagesOfTheRow ==
  LET colliding == SelectSeq(Config(cfg).uniqueColumns, LAMBDA c : Collides(c.index))
  IN  [k \in DOMAIN colliding |-> DuplicateMessage(colliding[k].name)]

\* C10: getRowProblemDescription(rows, index) is the row evaluator's messages
\* for rows[index] followed by one `Duplicate value in '<name>'` message per
\* unique column, in configuration order, in which the row's non-empty value
\* collides with another row, joined by single newlines; it is the empty
\* string when the index is outside the batch or both lists are empty.
C10_DescriptionIsValidationThenDuplicates ==
  "describe" \in returned =>
    IF rowIndex \notin RowIndices THEN description = ""
    ELSE LET validation == getRowValidationErrorMessages(TheRow, Config(cfg))
             all == validation \o DuplicateMessagesOfTheRow
         IN  /\ description = join(all, "\n")
             /\ Len(all) = 0 => description = ""
             /\ Len(split(description, "\n")) = IF Len(all) = 0 THEN 1 ELSE Len(all)

\* the description of a row with a missing required field and a duplicated
\* Mail: the validation message, a newline, the duplicate message
C10_Witness ==
  /\ "describe" \in returned
  /\ rowIndex \in RowIndices
  /\ ~AllRequiredPresent
  /\ Collides(Columns.mail)
  /\ StartsWith(description, "Required field '")
  /\ Contains(description, "\n" \o DuplicateMessage("Mail"))

\* the text of the cell of row i (0-based) in column c, white space trimmed off
CellText(i, c) == trim(StringOf(rowAt(rows[i + 1], c)))

\* the batch of the scenario of C11: three create rows, row 0 fully valid,
\* row 1 with an empty Display Name, row 2 with the User Principal Name of row 0
C11_Scenario ==
  /\ cfg = "create"
  /\ "verify" \in returned
  /\ Len(rows) = 3
  /\ 0 \notin RowsWithMessages
  /\ CellText(1, 7) = ""
  /\ CellText(0, 0) # ""
  /\ toLowerCase(CellText(2, 0)) = toLowerCase(CellText(0, 0))

\* C11 as stated: on that batch verifyUsers returns totalRows = 3, okCount = 1,
\* problemCount = 2, problemRowIndices = [0, 2] and success = false.
C11_AsStated ==
  C11_Scenario =>
    /\ result.totalRows = 3
    /\ result.okCount = 1
    /\ result.problemCount = 2
    /\ result.problemRowIndices = << 0, 2 >>
    /\ result.success = FALSE

\* C11: on that batch verifyUsers returns totalRows = 3, okCount = 0,
\* problemCount = 3, problemRowIndices = [0, 1, 2] and success = false: rows 0
\* and 2 are listed for the duplicate, row 1 for the missing field.
C11_ScenarioFlagsAllThreeRows ==
  C11_Scenario =>
    /\ result.totalRows = 3
    /\ result.okCount = 0
    /\ result.problemCount = 3
    /\ result.problemRowIndices = << 0, 1, 2 >>
    /\ result.success = FALSE

\* the scenario was verified with row 0 listed only for the duplicate and
\* row 1 only for its missing Display Name
C11_Witness ==
  /\ C11_Scenario
  /\ 0 \in Range(duplicateRows)
  /\ 1 \notin Range(duplicateRows)
  /\ getRowValidationErrorMessages(rows[2], Config(cfg))
       = << RequiredMessage("Display Name") >>

\* the rows with a message of their own or a colliding value in a unique column
ProblemRows ==
  RowsWithMessages \cup UNION { CollidingRows(c) : c \in UniqueColumnIndices }

\* C12: a batch of more than 100 rows is still fully evaluated: every row,
\* those at index >= 100 included, is listed in problemRowIndices exactly
\* when it has a problem, the counts cover all rows, and success is false;
\* 101 distinct, fully valid rows give problemCount = 0 and success = false.
C12_OverCeilingFullyEvaluated ==
  ("verify" \in returned /\ Len(rows) > 100) =>
    /\ result.totalRows = Len(rows)
    /\ Range(result.problemRowIndices) = ProblemRows
    /\ result.problemCount = Cardinality(ProblemRows)
    /\ result.okCount = Len(rows) - Cardinality(ProblemRows)
    /\ result.success = FALSE
    /\ (Len(rows) = 101 /\ ProblemRows = {}) => result.problemCount = 0

\* a batch of 101 rows was verified and its last row, at index 100, is listed
\* for messages of its own
C12_Witness ==
  /\ "verify" \in returned
  /\ Len(rows) = 101
  /\ 100 \in RowsWithMessages
  /\ result.problemRowIndices = << 100 >>
  /\ result.okCount = 100

SomeCellNeedsTrimming ==
  \E i \in DOMAIN rows : \E c \in DOMAIN rows[i] :
    rows[i][c].kind = "string" /\ trim(rows[i][c].str) # rows[i][c].str

AbsentRequired(i) ==
  \E k \in DOMAIN Config(cfg).requiredColumns :
    rowAt(rows[i + 1], Config(cfg).requiredColumns[k].index) = NoCell

\* C15: the engine never throws for malformed data: on every batch of rows of
\* any width (shorter than the configured column indices included) with
\* string, number or absent cells, verify and getRowProblemDescription (at
\* every index, and one on either side of the batch) have a value, and a
\* malformed cell shows up only as a flagged row and as diagnostic messages.
C15_MalformedDataIsReportedNotThrown ==
  /\ verify(Config(cfg), rows).totalRows = Len(rows)
  /\ \A i \in -1..Len(rows) :
       Len(getRowProblemDescription(Config(cfg), rows, i)) >= 0
  /\ "verify" \in returned =>
       /\ result.totalRows = Len(rows)
       /\ result.okCount + result.problemCount = Len(rows)
       /\ \A i \in RowIndices :
            AbsentRequired(i) => i \in Range(result.problemRowIndices)
  /\ ("describe" \in returned /\ rowIndex \in RowIndices) =>
       LET lines == Range(split(description, PROBLEM_MESSAGE_SEPARATOR))
       IN  /\ \A k \in DOMAIN Config(cfg).requiredColumns :
                rowAt(TheRow, Config(cfg).requiredColumns[k].index) = NoCell
                  => RequiredMessage(Config(cfg).requiredColumns[k].name) \in lines
           /\ NumberFormatCondition
                => "BMS ID must be a number (digits only, no leading zero)" \in lines
           /\ UpnFormatCondition => "User Principal Name: invalid format" \in lines
           /\ MailFormatCondition => "Mail: invalid format" \in lines
  /\ ("describe" \in returned /\ rowIndex \notin RowIndices) => description = ""

\* verify and getRowProblemDescription have returned on a batch with an empty
\* row and a row of numbers and absent cells, which is described
C15_Witness ==
  /\ {"verify", "describe"} \subseteq returned
  /\ Len(rows) = 2
  /\ Len(rows[1]) = 0
  /\ rowIndex = 1
  /\ \E c \in DOMAIN TheRow : TheRow[c].kind = "number"
  /\ \E c \in DOMAIN TheRow : TheRow[c] = NoCell
  /\ result.problemRowIndices = << 0, 1 >>
  /\ Contains(description, "BMS ID must be a number")

UpnText == Text(Columns.userPrincipalName)
MailText == Text(Columns.mail)
BmsIdText == Text(Columns.bmsId)

\* C16: for each address column the evaluator emits at most one message: none
\* for an empty cell, the invalid-format message for a non-empty cell that
\* does not split into exactly two non-empty parts on '@', the domain message
\* for a well-formed address whose domain, ignoring letter case, is not
\* majorel.com (identity address) or not in the allowed list (contact
\* address, the message naming all allowed domains joined by ', '), and none
\* for a well-formed address with an allowed domain in any letter case.
C16_OneMessagePerAddress ==
  "evaluate" \in returned =>
    /\ SelectSeq(messages, LAMBDA m : Category(m) = 5) =
         IF UpnText = "" THEN << >>
         ELSE IF ~WellFormedAddress(UpnText)
           THEN << "User Principal Name: invalid format" >>
         ELSE IF DomainPart(UpnText) # "majorel.com"
           THEN << "User Principal Name: domain must be majorel.com" >>
         ELSE << >>
    /\ SelectSeq(messages, LAMBDA m : Category(m) = 6) =
         IF MailText = "" THEN << >>
         ELSE IF ~WellFormedAddress(MailText)
           THEN << "Mail: invalid format" >>
         ELSE IF DomainPart(MailText) \notin {"majorel.com", "mj.teleperformance.com"}
           THEN << "Mail: domain must be one of majorel.com, mj.teleperformance.com" >>
         ELSE << >>

\* an upper-case identity address and a mixed-case contact address in the
\* second allowed domain were evaluated without an address message
C16_Witness ==
  /\ "evaluate" \in returned
  /\ UpnText = "A.B@MAJOREL.COM"
  /\ MailText = "A.B@MJ.Teleperformance.com"
  /\ \A k \in DOMAIN messages : Category(messages[k]) \notin {5, 6}

MismatchMessage == "User Principal Name and Mail local part do not match"

\* C17: the local-part mismatch message is emitted if and only if both
\* addresses are non-empty, both parse, and their local parts differ ignoring
\* letter case, whether or not the domains are allowed: a.b@majorel.com with
\* a.b@mj.teleperformance.com gives no such message, with x.y@majorel.com
\* gives one.
C17_MismatchIffLocalPartsDiffer ==
  "evaluate" \in returned =>
    /\ MismatchMessage \in Range(messages) <=>
         ( /\ UpnText # "" /\ MailText # ""
           /\ WellFormedAddress(UpnText) /\ WellFormedAddress(MailText)
           /\ LocalPart(UpnText) # LocalPart(MailText) )
    /\ (UpnText = "a.b@majorel.com" /\ MailText = "a.b@mj.teleperformance.com")
         => MismatchMessage \notin Range(messages)
    /\ (UpnText = "a.b@majorel.com" /\ MailText = "x.y@majorel.com")
         => MismatchMessage \in Range(messages)

\* two addresses with domains that are not allowed and different local parts
\* were evaluated to both domain messages and the mismatch message
C17_Witness ==
  /\ "evaluate" \in returned
  /\ UpnDomainCondition
  /\ MailDomainCondition
  /\ SubSeq(messages, Len(messages) - 2, Len(messages)) =
       << "User Principal Name: domain must be majorel.com",
          "Mail: domain must be one of majorel.com, mj.teleperformance.com",
          MismatchMessage >>

NumberFormatMessage == "BMS ID must be a number (digits only, no leading zero)"

\* C18: the numeric-identifier format message is emitted if and only if the
\* trimmed BMS ID cell is non-empty and is neither a single zero nor a
\* non-zero digit followed by digits: "0" and "123" pass, "01", "007", signs
\* and decimal points do not, and an empty cell never gives the message.
C18_NumberFormatMessage ==
  "evaluate" \in returned =>
    /\ NumberFormatMessage \in Range(messages) <=>
         (BmsIdText # "" /\ ~WellFormedNumber(BmsIdText))
    /\ BmsIdText \in {"", "0", "123"} => NumberFormatMessage \notin Range(messages)
    /\ BmsIdText \in {"01", "007", "-5", "1.5"}
         => NumberFormatMessage \in Range(messages)

\* a row with BMS ID 007 and a Local HR ID was evaluated to the format
\* message, without the either-or message
C18_Witness ==
  /\ "evaluate" \in returned
  /\ BmsIdText = "007"
  /\ Text(Columns.localHrId) # ""
  /\ NumberFormatMessage \in Range(messages)
  /\ "BMS ID and Local HR ID are both empty" \notin Range(messages)

UuidMessage == "Object ID must be a valid UUID"

\* C19: under the update configuration 'Object ID must be a valid UUID' is
\* emitted if and only if the trimmed Object ID cell is non-empty and not in
\* the 8-4-4-4-12 hexadecimal form of either letter case; an empty Object ID
\* gives the required-field message and no UUID message; the create
\* configuration never emits the message.
C19_UuidMessage ==
  "evaluate" \in returned =>
    /\ cfg = "update" =>
         /\ UuidMessage \in Range(messages) <=>
              (Text(0) # "" /\ ~WellFormedUuid(Text(0)))
         /\ Text(0) = "" =>
              /\ UuidMessage \notin Range(messages)
              /\ RequiredMessage("Object ID") \in Range(messages)
         /\ Text(0) \in {UuidLower, UuidUpper} => UuidMessage \notin Range(messages)
         /\ Text(0) = "not-a-uuid" => UuidMessage \in Range(messages)
    /\ cfg = "create" => UuidMessage \notin Range(messages)

\* an update row whose Object ID has the UUID layout but a letter that is not
\* hexadecimal was evaluated to the UUID message alone
C19_Witness ==
  /\ "evaluate" \in returned
  /\ cfg = "update"
  /\ Len(Text(0)) = 36
  /\ messages = << UuidMessage >>

\* the batch with a distinct well-formed Object ID prepended to each row
Shifted(batch) ==
  << >> \o [k \in 1..Len(batch) |->
             UpdateRow(StrCell("3fa85f64-5717-4562-b3fc-2c963f66" \o Pad4(k)), batch[k])]

\* the create verifier on create batches, to be compared with the update
\* verifier on the shifted batch
InitShift ==
  /\ cfg = "create"
  /\ rows \in Batches("create")
  /\ InitEngine
  /\ InitOther
  /\ InitNoFlow

SpecShift == InitShift /\ [][Next]_vars

\* C20: the update configuration is the create configuration shifted by one
\* position: on a create batch with a distinct well-formed Object ID
\* prepended to each row, verifyUpdateUsers returns the Verify Result that
\* verifyUsers returned on the original batch, and
\* getUpdateRowProblemDescription returns the text that
\* getRowProblemDescription returned, for the same row index.
C20_UpdateIsCreateShifted ==
  cfg = "create" =>
    /\ "verify" \in returned =>
         verify(updateVerifierInstance, Shifted(rows)) = result
    /\ "describe" \in returned =>
         getRowProblemDescription(updateVerifierInstance, Shifted(rows), rowIndex)
           = description

\* both functions returned on a create batch with problems, the described
\* row having validation messages and a duplicate
C20_Witness ==
  /\ cfg = "create"
  /\ returned = {"verify", "describe"}
  /\ result.problemCount >= 2
  /\ Contains(description, "Duplicate")
  /\ Contains(description, "Required field")
  /\ description =
       getRowProblemDescription(updateVerifierInstance, Shifted(rows), rowIndex)

\* C21: the engine never produces the no-input-table outcome: a result
\* returned by verify, on the empty batch too, has no noInputTable flag set;
\* a result with the flag is the value of noInputTableResult that the caller
\* supplied because the table was not found; and verify of the empty batch
\* has success = true, so it differs from that value.
C21_SentinelOnlyFromCaller ==
  /\ "verify" \in returned =>
       /\ result.totalRows = Len(rows)
       /\ ~result.noInputTable
       /\ result # noInputTableResult
  /\ result.noInputTable =>
       /\ result = noInputTableResult
       /\ ~table.present
       /\ "verify" \notin returned
       /\ ~result.success
       /\ result.totalRows = 0 /\ result.okCount = 0 /\ result.problemCount = 0
  /\ (pc = "verified" /\ rows = << >>) =>
       (result.success /\ result.totalRows = 0)

\* the table was found with an empty data body and verify returned success
C21_Witness ==
  /\ table.present
  /\ table.values = << >>
  /\ "verify" \in returned
  /\ result.success
  /\ result.totalRows = 0
  /\ ~result.noInputTable

\* ------------------------------------------------------------------------
\* The two address helpers on single texts
\* ------------------------------------------------------------------------

AddressLocals == { "", "a", "A.b", "a b", " a", "a " }
AddressSeparators == { "", "@", "@@", " @ ", "@ ", " @" }
AddressDomains == { "", "x.Y", "MAJOREL.com", "b ", " " }

Addresses ==
  { l \o s \o d : l \in AddressLocals, s \in AddressSeparators, d \in AddressDomains }

InitParse ==
  /\ cfg = "create"
  /\ rows = << >>
  /\ InitEngine
  /\ InitNoFlow
  /\ address \in Addresses
  /\ validFormat = FALSE
  /\ parsed = NoAddress
  /\ InitOtherThanParse

\* isValidEmailFormat(value) and parseEmail(value) on the same text
ParseAddress ==
  /\ "parse" \notin returned
  /\ validFormat' = isValidEmailFormat(address)
  /\ parsed' = parseEmail(address)
  /\ returned' = returned \cup {"parse"}
  /\ UNCHANGED << cfg, rows, result, rowIndex, description, messages,
                  duplicateRows, calls, flowVars, address, legacyVars, createVars,
                  dialogVars >>

NextParse == ParseAddress

SpecParse == InitParse /\ [][NextParse]_vars

\* C22: for every trimmed text, parseEmail returns null exactly when
\* isValidEmailFormat is false, which is when the text does not split on '@'
\* into exactly two non-empty parts; a non-null result holds the trimmed
\* local part and the trimmed, lower-cased domain.
C22_ParseAgreesWithFormat ==
  ("parse" \in returned /\ trim(address) = address) =>
    /\ parsed.ok <=> validFormat
    /\ validFormat <=> WellFormedAddress(address)
    /\ parsed.ok =>
         /\ parsed.local = trim(SubSeq(address, 1, AtPosition(address) - 1))
         /\ parsed.domain =
              toLowerCase(trim(SubSeq(address, AtPosition(address) + 1, Len(address))))
         /\ trim(parsed.local) = parsed.local
         /\ trim(parsed.domain) = parsed.domain
         /\ toLowerCase(parsed.domain) = parsed.domain

\* a trimmed text with white space around the '@' and capitals in the
\* domain was parsed
C22_Witness ==
  /\ "parse" \in returned
  /\ address = "A.b @ MAJOREL.com"
  /\ validFormat
  /\ parsed = [ok |-> TRUE, local |-> "A.b", domain |-> "majorel.com"]

EitherOrMessage == "BMS ID and Local HR ID are both empty"

\* the configuration with the two identifier columns added to its required
\* columns
WithIdentifiersRequired(config) ==
  [config EXCEPT !.requiredColumns =
     @ \o << Col(config.columns.bmsId, "BMS ID"),
             Col(config.columns.localHrId, "Local HR ID") >>]

\* C23: the message 'BMS ID and Local HR ID are both empty' is emitted if and
\* only if the BMS ID cell and the Local HR ID cell are both empty after
\* trimming, whether or not the two columns are among the required columns,
\* and never together with the BMS ID format message.
C23_EitherOrIffBothEmpty ==
  "evaluate" \in returned =>
    /\ EitherOrMessage \in Range(messages) <=>
         (BmsIdText = "" /\ Text(Columns.localHrId) = "")
    /\ Len(SelectSeq(messages, LAMBDA m : m = EitherOrMessage)) <= 1
    /\ ~(EitherOrMessage \in Range(messages) /\ NumberFormatMessage \in Range(messages))
    /\ EitherOrMessage
         \in Range(getRowValidationErrorMessages(TheRow,
                     WithIdentifiersRequired(Config(cfg))))
       <=> EitherOrMessage \in Range(messages)

\* a row with an empty BMS ID and a Local HR ID of white space only was
\* evaluated to the either-or message
C23_Witness ==
  /\ "evaluate" \in returned
  /\ Len(TheRow) > Columns.localHrId
  /\ rowAt(TheRow, Columns.localHrId) = StrCell("  ")
  /\ BmsIdText = ""
  /\ EitherOrMessage \in Range(messages)

\* the run passed the submission gate and returned
RunCompleted == pc = "done" /\ result.success /\ ~result.noInputTable

\* C24: after a successful verification the flow calls createUser /
\* updateUser for the rows that were verified, read once in that run, in row
\* order and once per row, pushes one log row per call, and returns only
\* after every row was submitted and the log rows were added to the log
\* table, whatever the status of the earlier rows and whatever the table
\* has become in the meantime.
C24_EveryVerifiedRowSubmittedOnce ==
  /\ Len(submitted) <= Len(rows)
  /\ submitted = indexSeq(Len(submitted))
  /\ logRows = submitted
  /\ Len(submitted) > 0 => Len(rows) = result.totalRows
  /\ (RunCompleted \/ (pc = "failed" /\ Len(submitted) > 0)) =>
       /\ submitted = indexSeq(result.totalRows)
       /\ logRows = indexSeq(result.totalRows)
  /\ RunCompleted => logTable = indexSeq(result.totalRows)
  /\ logTable \in {<< >>, logRows}

\* a run has returned after submitting at least two rows, one of them with
\* an 'error' result before the last, successful one, while the user had
\* edited the table
C24_Witness ==
  /\ RunCompleted
  /\ Len(rows) >= 2
  /\ "error" \in statuses
  /\ lastStatus = "success"
  /\ table.values # rows
  /\ submitted = indexSeq(Len(rows))
  /\ logTable = indexSeq(Len(rows))

\* ------------------------------------------------------------------------
\* applyVerifyResultToSheet on sheets with earlier fills and notes
\* ------------------------------------------------------------------------

MaxSheetRows == 2

SheetBatches(c) == UNION { [1..n -> BatchRows(c)] : n \in 0..MaxSheetRows }

\* a note that is not on a first cell of the data body
HeaderNote == [row |-> -1, text |-> "fill in one row per user"]

FillsBefore(n) == { [i \in 1..n |-> colour] : colour \in {"", PROBLEM_FILL, "#C6EFCE"} }
NotesBefore == SUBSET {StaleNote, HeaderNote}

\* verify has just returned in a handler that read the table
InitSheet ==
  /\ cfg \in {"create", "update"}
  /\ rows \in SheetBatches(cfg)
  /\ table = [present |-> TRUE, values |-> rows]
  /\ pc = "verified"
  /\ result = verify(Config(cfg), rows)
  /\ duplicateRows = findRowsWithDuplicateUniqueValues(rows, Config(cfg).uniqueColumns)
  /\ returned = {"verify"}
  /\ rowIndex = -1
  /\ description = ""
  /\ messages = << >>
  /\ calls = << >>
  /\ submitted = << >>
  /\ lastStatus = "none"
  /\ InitNoLog
  /\ InitOther
  /\ fills \in FillsBefore(Len(rows))
  /\ notes \in NotesBefore

NextSheet == ApplyVerifyResult

SpecSheet == InitSheet /\ [][NextSheet]_vars

ProblemSet == { result.problemRowIndices[k] : k \in DOMAIN result.problemRowIndices }

\* the problem fill on exactly the problem rows, the other rows clear
ResultFills ==
  [i \in 1..Len(rows) |-> IF (i - 1) \in ProblemSet THEN PROBLEM_FILL ELSE ""]

\* one note per problem row, on its first cell, with its description
ResultNotes ==
  { [row |-> i, text |-> getRowProblemDescription(Config(cfg), rows, i)] :
      i \in ProblemSet }

FillsAsResult == fills = ResultFills
NotesAsResult == notes = ResultNotes

\* C25 as stated: after applyVerifyResultToSheet a data row carries the
\* problem fill colour if and only if its index is in
\* result.problemRowIndices, the other rows are clear, every note that was on
\* the worksheet is deleted, and there is exactly one note per problem row,
\* on the row's first cell, with the text getRowProblemFn(rows, index).
C25_AsStated == pc = "applied" => (FillsAsResult /\ NotesAsResult)

\* C25, what the code does: the fills are as stated; the notes are as stated
\* when the data body has at least one row, and are left as they were when
\* it has none.
C25_NotesKeptOnEmptyDataBody ==
  [][ (pc = "verified" /\ pc' = "applied") =>
        /\ fills' = ResultFills
        /\ notes' = IF Len(rows) > 0 THEN ResultNotes ELSE notes ]_vars

\* the function returned on a two-row data body that had fills and notes,
\* with one problem row
C25_Witness ==
  /\ pc = "applied"
  /\ Len(rows) = 2
  /\ result.problemRowIndices = << 1 >>
  /\ fills = << "", PROBLEM_FILL >>
  /\ Cardinality(notes) = 1
  /\ StaleNote \notin notes

\* the function returned on an empty data body and a note is still there
C25_StaleNoteOnEmptyDataBody ==
  /\ pc = "applied"
  /\ rows = << >>
  /\ result.success
  /\ StaleNote \in notes

\* C26: verify and getRowProblemDescription agree: a row index of the batch
\* is in verify(rows).problemRowIndices if and only if
\* getRowProblemDescription(rows, index) is not the empty string; an index
\* outside the batch has the empty description.
C26_FlaggedIffDescribed ==
  ("verify" \in returned /\ "describe" \in returned) =>
    IF rowIndex \in RowIndices
      THEN (rowIndex \in Range(result.problemRowIndices)) <=> (description # "")
      ELSE description = ""

\* a row with no message of its own was flagged and described because of a
\* value it shares with another row in another letter case
C26_Witness ==
  /\ "verify" \in returned
  /\ "describe" \in returned
  /\ rowIndex \in RowIndices
  /\ getRowValidationErrorMessages(TheRow, Config(cfg)) = << >>
  /\ rowIndex \in Range(result.problemRowIndices)
  /\ description = "Duplicate value in 'Local HR ID'"

\* ------------------------------------------------------------------------
\* The standalone validators that the engine replaced
\* ------------------------------------------------------------------------

\* verifyUsers.ts (standalone): COL, REQUIRED_COLUMNS, UNIQUE_COLUMNS
CreateUsers_COL ==
  [userPrincipalName |-> 0, mail |-> 1, bmsId |-> 2, localHrId |-> 3,
   firstName |-> 5, lastName |-> 6, displayName |-> 7, country |-> 8, city |-> 9]

CreateUsers_REQUIRED_COLUMNS ==
  << Col(CreateUsers_COL.userPrincipalName, "User Principal Name"),
     Col(CreateUsers_COL.mail, "Mail"),
     Col(CreateUsers_COL.firstName, "First Name"),
     Col(CreateUsers_COL.lastName, "Last Name"),
     Col(CreateUsers_COL.displayName, "Display Name"),
     Col(CreateUsers_COL.country, "Country"),
     Col(CreateUsers_COL.city, "City") >>

CreateUsers_UNIQUE_COLUMNS ==
  << Col(CreateUsers_COL.userPrincipalName, "User Principal Name"),
     Col(CreateUsers_COL.mail, "Mail"),
     Col(CreateUsers_COL.bmsId, "BMS ID"),
     Col(CreateUsers_COL.localHrId, "Local HR ID") >>

\* the standalone update validator: COL, REQUIRED_COLUMNS, UNIQUE_COLUMNS
UpdateUsers_COL ==
  [objectId |-> 0, userPrincipalName |-> 1, mail |-> 2, bmsId |-> 3,
   localHrId |-> 4, firstName |-> 6, lastName |-> 7, displayName |-> 8,
   country |-> 9, city |-> 10]

UpdateUsers_REQUIRED_COLUMNS ==
  << Col(UpdateUsers_COL.objectId, "Object ID"),
     Col(UpdateUsers_COL.userPrincipalName, "User Principal Name"),
     Col(UpdateUsers_COL.mail, "Mail"),
     Col(UpdateUsers_COL.firstName, "First Name"),
     Col(UpdateUsers_COL.lastName, "Last Name"),
     Col(UpdateUsers_COL.displayName, "Display Name"),
     Col(UpdateUsers_COL.country, "Country"),
     Col(UpdateUsers_COL.city, "City") >>

UpdateUsers_UNIQUE_COLUMNS ==
  << Col(UpdateUsers_COL.objectId, "Object ID"),
     Col(UpdateUsers_COL.userPrincipalName, "User Principal Name"),
     Col(UpdateUsers_COL.mail, "Mail"),
     Col(UpdateUsers_COL.bmsId, "BMS ID"),
     Col(UpdateUsers_COL.localHrId, "Local HR ID") >>

\* messages.push(...) if the condition holds
pushIf(condition, message) == IF condition THEN << message >> ELSE << >>

\* the loop over REQUIRED_COLUMNS of either standalone validator
Standalone_required(row, REQUIRED_COLUMNS) ==
  LET empty == SelectSeq(REQUIRED_COLUMNS, LAMBDA c : cellValue(row, c.index) = "")
  IN  [k \in 1..Len(empty) |-> "Required field '" \o empty[k].name \o "' is empty"]

\* the checks of either standalone validator from the BMS ID on, the two
\* files being the same text from there
Standalone_fromBmsId(bmsId, localHrId, upn, mail) ==
  pushIf(bmsId = "" /\ localHrId = "", "BMS ID and Local HR ID are both empty")
  \o pushIf(bmsId # "" /\ ~isValidBmsId(bmsId),
            "BMS ID must be a number (digits only, no leading zero)")
  \o (IF upn = "" THEN << >>
      ELSE IF ~isValidEmailFormat(upn)
        THEN << "User Principal Name: invalid format" >>
        ELSE pushIf(parseEmail(upn).ok
                      /\ parseEmail(upn).domain # toLowerCase(UPN_DOMAIN),
                    "User Principal Name: domain must be " \o UPN_DOMAIN))
  \o (IF mail = "" THEN << >>
      ELSE IF ~isValidEmailFormat(mail)
        THEN << "Mail: invalid format" >>
        ELSE pushIf(parseEmail(mail).ok
                      /\ \A k \in DOMAIN MAIL_DOMAINS :
                           toLowerCase(MAIL_DOMAINS[k]) # parseEmail(mail).domain,
                    "Mail: domain must be one of " \o join(MAIL_DOMAINS, ", ")))
  \o pushIf(upn # "" /\ mail # "" /\ parseEmail(upn).ok /\ parseEmail(mail).ok
              /\ toLowerCase(parseEmail(upn).local) # toLowerCase(parseEmail(mail).local),
            "User Principal Name and Mail local part do not match")

\* verifyUsers.ts (standalone): getRowValidationErrorMessages(row)
CreateUsers_getRowValidationErrorMessages(row) ==
  Standalone_required(row, CreateUsers_REQUIRED_COLUMNS)
  \o Standalone_fromBmsId(cellValue(row, CreateUsers_COL.bmsId),
                          cellValue(row, CreateUsers_COL.localHrId),
                          cellValue(row, CreateUsers_COL.userPrincipalName),
                          cellValue(row, CreateUsers_COL.mail))

\* the standalone update validator with the UUID check after the other checks
UpdateUsers_getRowValidationErrorMessagesUuidLast(row) ==
  Standalone_required(row, UpdateUsers_REQUIRED_COLUMNS)
  \o Standalone_fromBmsId(cellValue(row, UpdateUsers_COL.bmsId),
                          cellValue(row, UpdateUsers_COL.localHrId),
                          cellValue(row, UpdateUsers_COL.userPrincipalName),
                          cellValue(row, UpdateUsers_COL.mail))
  \o pushIf(cellValue(row, UpdateUsers_COL.objectId) # ""
              /\ ~UUID_REGEX(cellValue(row, UpdateUsers_COL.objectId)),
            "Object ID must be a valid UUID")

\* the standalone update validator: getRowValidationErrorMessages(row)
UpdateUsers_getRowValidationErrorMessages(row) ==
  Standalone_required(row, UpdateUsers_REQUIRED_COLUMNS)
  \o pushIf(cellValue(row, UpdateUsers_COL.objectId) # ""
              /\ ~UUID_REGEX(cellValue(row, UpdateUsers_COL.objectId)),
            "Object ID must be a valid UUID")
  \o Standalone_fromBmsId(cellValue(row, UpdateUsers_COL.bmsId),
                          cellValue(row, UpdateUsers_COL.localHrId),
                          cellValue(row, UpdateUsers_COL.userPrincipalName),
                          cellValue(row, UpdateUsers_COL.mail))

Standalone_getRowValidationErrorMessages(c, row) ==
  IF c = "update" THEN UpdateUsers_getRowValidationErrorMessages(row)
  ELSE CreateUsers_getRowValidationErrorMessages(row)

Standalone_UNIQUE_COLUMNS(c) ==
  IF c = "update" THEN UpdateUsers_UNIQUE_COLUMNS ELSE CreateUsers_UNIQUE_COLUMNS

\* the lower-cased trimmed values of one column, one per row
Standalone_keys(batch, index) ==
  << >> \o [k \in 1..Len(batch) |-> toLowerCase(cellValue(batch[k], index))]

\* getRowDuplicateMessages(rows, rowIndex) of either standalone validator
Standalone_getRowDuplicateMessages(c, batch, index) ==
  LET row == IF index >= 0 /\ index < Len(batch) THEN batch[index + 1] ELSE << >>
      duplicated ==
        SelectSeq(Standalone_UNIQUE_COLUMNS(c),
                  LAMBDA u :
                    /\ cellValue(row, u.index) # ""
                    /\ Cardinality({ i \in 1..Len(batch) :
                                       toLowerCase(cellValue(batch[i], u.index))
                                         = toLowerCase(cellValue(row, u.index)) }) > 1)
  IN  [k \in 1..Len(duplicated) |-> "Duplicate value in '" \o duplicated[k].name \o "'"]

\* findRowsWithDuplicateUniqueValues(rows) of either standalone validator,
\* as the set of the row indices it holds
Standalone_findRowsWithDuplicateUniqueValues(c, batch) ==
  UNION { LET keys == Standalone_keys(batch, Standalone_UNIQUE_COLUMNS(c)[u].index)
          IN  { i \in 0..(Len(batch) - 1) :
                  /\ keys[i + 1] # ""
                  /\ \E j \in 1..Len(batch) : j # i + 1 /\ keys[j] = keys[i + 1] }
          : u \in DOMAIN Standalone_UNIQUE_COLUMNS(c) }

\* verifyUsers(rows) / verifyUpdateUsers(rows) of the standalone validators
Standalone_verify(c, batch) ==
  LET problemRowIndicesSet ==
        { i \in 0..(Len(batch) - 1) :
            Len(Standalone_getRowValidationErrorMessages(c, batch[i + 1])) > 0 }
        \cup Standalone_findRowsWithDuplicateUniqueValues(c, batch)
      problemRowIndices ==
        SelectSeq(indexSeq(Len(batch)), LAMBDA i : i \in problemRowIndicesSet)
      problemCount == Len(problemRowIndices)
  IN  [success |-> problemCount = 0 /\ ~(Len(batch) > MAX_DATA_ROWS),
       totalRows |-> Len(batch),
       okCount |-> Len(batch) - problemCount,
       problemCount |-> problemCount,
       problemRowIndices |-> problemRowIndices,
       noInputTable |-> FALSE]

\* getRowProblemDescription / getUpdateRowProblemDescription of the
\* standalone validators
Standalone_getRowProblemDescription(c, batch, index) ==
  IF ~(index >= 0 /\ index < Len(batch)) THEN ""
  ELSE LET all == Standalone_getRowValidationErrorMessages(c, batch[index + 1])
                  \o Standalone_getRowDuplicateMessages(c, batch, index)
       IN  IF Len(all) = 0 THEN "" ELSE join(all, "\n")

\* rows of the batches given to both: those of the engine's batches and an
\* update row with a required field missing and an Object ID that is no UUID
LegacyBatchRows(c) ==
  IF c = "update"
    THEN UpdateBatchRows \cup { UpdateRow(StrCell("not-a-uuid"), ManyProblemsRow) }
    ELSE CreateBatchRows

LegacyBatches(c) ==
  UNION { [1..n -> LegacyBatchRows(c)] : n \in 0..MaxRows } \cup LargeBatches(c)

InitLegacy ==
  /\ cfg \in {"create", "update"}
  /\ rows \in LegacyBatches(cfg)
  /\ InitEngine
  /\ InitOther
  /\ InitNoFlow

\* the same batch given to the engine and to the standalone validator
VerifyBoth ==
  /\ "verify" \notin returned
  /\ result' = verify(Config(cfg), rows)
  /\ duplicateRows' =
       findRowsWithDuplicateUniqueValues(rows, Config(cfg).uniqueColumns)
  /\ legacyResult' = Standalone_verify(cfg, rows)
  /\ returned' = returned \cup {"verify"}
  /\ UNCHANGED << cfg, rows, rowIndex, description, messages, calls, flowVars,
                  parseVars, legacyDescription, createVars, dialogVars >>

\* the same batch and index given to both description functions
DescribeBoth ==
  \E i \in DescribeIndices(Len(rows)) :
    /\ "describe" \notin returned
    /\ rowIndex' = i
    /\ description' = getRowProblemDescription(Config(cfg), rows, i)
    /\ legacyDescription' = Standalone_getRowProblemDescription(cfg, rows, i)
    /\ returned' = returned \cup {"describe"}
    /\ UNCHANGED << cfg, rows, result, messages, duplicateRows, calls, flowVars,
                    parseVars, legacyResult, createVars, dialogVars >>

NextLegacy == VerifyBoth \/ DescribeBoth

SpecLegacy == InitLegacy /\ [][NextLegacy]_vars

\* C27: the engine with the create configuration returns the same Verify
\* Result and the same description as the standalone create validator, and
\* with the update configuration the same as the standalone update
\* validator, the UUID message included, directly after the required-field
\* messages.
C27_EngineEqualsStandalone ==
  /\ "verify" \in returned => result = legacyResult
  /\ "describe" \in returned => description = legacyDescription

\* both validators of the update table were given a batch in which the
\* described row has a required-field message, the UUID message and a
\* duplicate
C27_Witness ==
  /\ cfg = "update"
  /\ returned = {"verify", "describe"}
  /\ result.problemCount >= 2
  /\ Contains(legacyDescription, "is empty\nObject ID must be a valid UUID\n")
  /\ Contains(legacyDescription, "Duplicate value in")

\* the errors of the submitters' early exits
EarlyExitErrors == {"userPrincipalName is required", "Object ID is required"}

\* createUser / updateUser can take its early exit on a row of the batch
EarlyExitPossible(c, batch) ==
  \E k \in DOMAIN batch : \E r \in SubmitResults(c, batch[k]) :
    r.error \in EarlyExitErrors

\* C28: on a batch for which verifyUsers returned success = true createUser
\* never takes its 'userPrincipalName is required' early exit, and on a
\* batch for which verifyUpdateUsers returned success = true updateUser never
\* takes its 'Object ID is required' early exit: no outcome of the requests
\* leads there for any row, and no submitted row resolved to it.
C28_SuccessImpliesNoEarlyExit ==
  /\ (pc = "verified" /\ result.success) => ~EarlyExitPossible(cfg, rows)
  /\ Len(submitted) > 0 =>
       /\ lastError \notin EarlyExitErrors
       /\ cell(rows[Len(submitted)], 0) # ""
       /\ cell(rows[Len(submitted)], 0)
            = cellValue(rows[Len(submitted)], Config(cfg).requiredColumns[1].index)

\* a run that passed the gate has submitted every row of its batch, one of
\* them to an 'error' result that came from the request
C28_Witness ==
  /\ pc = "done"
  /\ Len(submitted) = Len(rows)
  /\ Len(rows) >= 2
  /\ result.success
  /\ lastStatus = "error"
  /\ lastError = GraphError

\* ------------------------------------------------------------------------
\* createUser called on one row
\* ------------------------------------------------------------------------

\* rows createUser is called with: every row of the create batches
CreateUserRows == UNION { Range(b) : b \in Batches("create") }

InitCreate ==
  /\ cfg = "create"
  /\ rows \in { << r >> : r \in CreateUserRows }
  /\ InitEngine
  /\ InitNoFlow
  /\ InitNoParse
  /\ InitNoLegacy
  /\ InitNoDialog
  /\ lookup \in LookupOutcomes
  /\ post \in PostOutcomes
  /\ created = NoUserResult

\* await createUser(row, accessToken)
CallCreateUser ==
  /\ created = NoUserResult
  /\ created' = createUser(rows[1], lookup, post)
  /\ UNCHANGED << cfg, rows, engineVars, flowVars, parseVars, legacyVars,
                  lookup, post, dialogVars >>

NextCreate == CallCreateUser

SpecCreate == InitCreate /\ [][NextCreate]_vars

\* C29: for a row with a non-empty UPN createUser issues the POST unless the
\* lookup reports a user: a match gives 'skipped' with no POST and no
\* password; a lookup that throws or is not OK still leads to the POST;
\* createUser always resolves, and generatedPassword and objectId are
\* non-null only with status 'success'.
C29_PostUnlessLookupFindsUser ==
  created # NoUserResult =>
    /\ ~created.rejected
    /\ created.status \in {"success", "error", "skipped"}
    /\ cell(rows[1], 0) # "" =>
         /\ created.posted <=> lookup # "found"
         /\ created.status = "skipped" <=> lookup = "found"
         /\ lookup \in {"throws", "notOk"} => created.posted
    /\ created.status = "skipped" =>
         /\ ~created.posted
         /\ created.generatedPassword = "null"
         /\ created.objectId = "null"
         /\ created.error = "UPN already exists"
    /\ (created.generatedPassword # "null" \/ created.objectId # "null") =>
         created.status = "success"
    /\ cell(rows[1], 0) = "" => ~created.posted /\ created.status = "error"

\* the lookup threw and the POST created the user
C29_Witness ==
  /\ lookup = "throws"
  /\ cell(rows[1], 0) # ""
  /\ created.posted
  /\ created.status = "success"
  /\ created.objectId = "id"
  /\ created.generatedPassword = "password"

\* ------------------------------------------------------------------------
\* AccountManager: the dialog fallback and its cached promise
\* ------------------------------------------------------------------------

\* resolve / reject of a promise: no effect once it is settled
Settle(state, to) == IF state = "pending" THEN to ELSE state

\* what the dialog can send: text that is not JSON, an object with an error,
\* an object with an access token, an object with neither
DialogMessages == {"unparsable", "error", "token", "empty"}

DIALOG_CLOSED_ERROR_CODE == 12006

\* codes of DialogEventReceived: the dialog was closed, another event
DialogEventCodes == {DIALOG_CLOSED_ERROR_CODE, 12002}

otherThanDialog == << cfg, rows, engineVars, flowVars, parseVars, legacyVars,
                      createVars >>

InitDialog ==
  /\ cfg = "create"
  /\ rows = << >>
  /\ InitEngine
  /\ InitNoFlow
  /\ InitNoParse
  /\ InitNoLegacy
  /\ InitNoCreate
  /\ InitNoDialog

\* acquireToken up to its first await: the cached promise is returned if
\* there is one
AcquireTokenCheck(c) ==
  /\ callerPc[c] = "idle"
  /\ IF dialogApiResult # 0
       THEN /\ callerPc' = [callerPc EXCEPT ![c] = "cached"]
            /\ callerGot' = [callerGot EXCEPT ![c] = dialogApiResult]
            /\ callerHit' = [callerHit EXCEPT ![c] = promises[dialogApiResult]]
       ELSE /\ callerPc' = [callerPc EXCEPT ![c] = "acquiring"]
            /\ UNCHANGED << callerGot, callerHit >>
  /\ UNCHANGED << dialogApiResult, usingFallbackDialog, promises, dialogs,
                  synchronous, attempts, otherThanDialog >>

\* acquireToken ends without the dialog: a token from the silent or the
\* popup flow, or an error thrown
AcquireWithoutDialog(c) ==
  /\ callerPc[c] = "acquiring"
  /\ \E end \in {"token", "threw"} : callerPc' = [callerPc EXCEPT ![c] = end]
  /\ UNCHANGED << dialogApiResult, usingFallbackDialog, promises, dialogs,
                  synchronous, attempts, callerGot, callerHit, otherThanDialog >>

\* getTokenWithDialogApi, reached through handleInteractiveTokenError: the
\* executor calls displayDialogAsync, whose callback runs later or, with a
\* failed status, before displayDialogAsync returns; then the new promise is
\* assigned to _dialogApiResult and returned
GetTokenWithDialogApi(c) ==
  /\ callerPc[c] = "acquiring"
  /\ attempts < MaxAttempts
  /\ LET n == attempts + 1
     IN  /\ \E inExecutor \in BOOLEAN :
               /\ promises' = [promises EXCEPT
                                 ![n] = IF inExecutor THEN "rejected" ELSE "pending"]
               /\ dialogs' = [dialogs EXCEPT
                                ![n] = IF inExecutor THEN "failed" ELSE "opening"]
               /\ synchronous' = IF inExecutor THEN synchronous \cup {n}
                                 ELSE synchronous
         /\ dialogApiResult' = n
         /\ attempts' = n
         /\ callerPc' = [callerPc EXCEPT ![c] = "waiting"]
         /\ callerGot' = [callerGot EXCEPT ![c] = n]
  /\ UNCHANGED << usingFallbackDialog, callerHit, otherThanDialog >>

\* the callback of displayDialogAsync, run after displayDialogAsync returned
DisplayDialogCallback(n) ==
  /\ dialogs[n] = "opening"
  /\ \/ /\ dialogs' = [dialogs EXCEPT ![n] = "open"]
        /\ UNCHANGED << dialogApiResult, promises >>
     \/ /\ dialogs' = [dialogs EXCEPT ![n] = "failed"]
        /\ dialogApiResult' = 0
        /\ promises' = [promises EXCEPT ![n] = Settle(@, "rejected")]
  /\ UNCHANGED << usingFallbackDialog, synchronous, attempts, callerPc,
                  callerGot, callerHit, otherThanDialog >>

\* the handler of DialogEventReceived
DialogEventReceived(n) ==
  /\ dialogs[n] = "open"
  /\ \E code \in DialogEventCodes :
       IF code = DIALOG_CLOSED_ERROR_CODE
         THEN /\ dialogApiResult' = 0
              /\ promises' = [promises EXCEPT ![n] = Settle(@, "rejected")]
              /\ dialogs' = [dialogs EXCEPT ![n] = "closed"]
         ELSE UNCHANGED << dialogApiResult, promises, dialogs >>
  /\ UNCHANGED << usingFallbackDialog, synchronous, attempts, callerPc,
                  callerGot, callerHit, otherThanDialog >>

\* the handler of DialogMessageReceived
DialogMessageReceived(n) ==
  /\ dialogs[n] = "open"
  /\ dialogs' = [dialogs EXCEPT ![n] = "closed"]
  /\ \E message \in DialogMessages :
       IF message = "token"
         THEN /\ usingFallbackDialog' = TRUE
              /\ promises' = [promises EXCEPT ![n] = Settle(@, "resolved")]
              /\ UNCHANGED dialogApiResult
         ELSE /\ dialogApiResult' = 0
              /\ promises' = [promises EXCEPT ![n] = Settle(@, "rejected")]
              /\ UNCHANGED usingFallbackDialog
  /\ UNCHANGED << synchronous, attempts, callerPc, callerGot, callerHit,
                  otherThanDialog >>

\* the message handler of signOutWithDialogApi, which signOut opens when
\* the fallback dialog is in use
SignOutMessageReceived ==
  /\ usingFallbackDialog
  /\ dialogApiResult' = 0
  /\ UNCHANGED << usingFallbackDialog, promises, dialogs, synchronous, attempts,
                  callerPc, callerGot, callerHit, otherThanDialog >>

\* cleanup()
Cleanup ==
  /\ dialogApiResult' = 0
  /\ usingFallbackDialog' = FALSE
  /\ dialogApiResult # 0 \/ usingFallbackDialog
  /\ UNCHANGED << promises, dialogs, synchronous, attempts, callerPc, callerGot,
                  callerHit, otherThanDialog >>

\* the caller's await of acquireToken ends; it may call again
AcquireTokenSettled(c) ==
  /\ \/ callerPc[c] \in {"token", "threw"}
     \/ /\ callerPc[c] \in {"cached", "waiting"}
        /\ promises[callerGot[c]] \in {"resolved", "rejected"}
  /\ callerPc' = [callerPc EXCEPT ![c] = "idle"]
  /\ callerGot' = [callerGot EXCEPT ![c] = 0]
  /\ callerHit' = [callerHit EXCEPT ![c] = "none"]
  /\ UNCHANGED << dialogApiResult, usingFallbackDialog, promises, dialogs,
                  synchronous, attempts, otherThanDialog >>

NextDialog ==
  \/ \E c \in Callers : AcquireTokenCheck(c)
  \/ \E c \in Callers : AcquireWithoutDialog(c)
  \/ \E c \in Callers : GetTokenWithDialogApi(c)
  \/ \E n \in Attempts : DisplayDialogCallback(n)
  \/ \E n \in Attempts : DialogEventReceived(n)
  \/ \E n \in Attempts : DialogMessageReceived(n)
  \/ SignOutMessageReceived
  \/ Cleanup
  \/ \E c \in Callers : AcquireTokenSettled(c)

SpecDialog == InitDialog /\ [][NextDialog]_vars

\* C30 as the claim states it: _dialogApiResult never holds a rejected
\* promise, and acquireToken never returns one from the cache.
C30_AsStated ==
  /\ dialogApiResult # 0 => promises[dialogApiResult] \in {"pending", "resolved"}
  /\ \A c \in Callers : callerHit[c] \in {"none", "pending", "resolved"}

\* C30: a failed attempt whose failing callback ran after displayDialogAsync
\* returned is never held in _dialogApiResult and never returned from the
\* cache, for any interleaving of callbacks and acquireToken calls; the only
\* rejected promise the cache holds or returns is that of an attempt whose
\* displayDialogAsync callback ran inside the promise executor.
C30_OnlyExecutorFailureRetained ==
  /\ \A n \in Attempts :
       (promises[n] = "rejected" /\ n \notin synchronous) => dialogApiResult # n
  /\ \A c \in Callers :
       callerHit[c] = "rejected" => callerGot[c] \in synchronous
  /\ \A n \in synchronous : promises[n] = "rejected"

\* an attempt failed in a callback that ran later, the cache is empty, and
\* a caller has passed the cache test to acquire afresh
C30_Witness ==
  /\ \E n \in Attempts : promises[n] = "rejected" /\ n \notin synchronous
  /\ dialogApiResult = 0
  /\ \E c \in Callers : callerPc[c] = "acquiring"

\* acquireToken has returned the rejected promise of an earlier attempt
\* from the cache
C30_RejectedPromiseFromCache ==
  \E c \in Callers :
    /\ callerPc[c] = "cached"
    /\ callerHit[c] = "rejected"
    /\ promises[callerGot[c]] = "rejected"
====
